---- MODULE Spec2Model ----
(***************************************************************************)
(* Token-gated access control with single-active-session enforcement.      *)
(* The store (tables users, tokens, sessions) is shared by independent     *)
(* browser clients; every await of a store call in src/src/utils/auth.ts   *)
(* is a suspension point, so each store round-trip is one action.          *)
(***************************************************************************)
EXTENDS Integers, Sequences, FiniteSets, TLC

(* ------------------------------ bounds -------------------------------- *)
\* Operations (signIn, signUp, validateSession) started in one behaviour.
MaxCalls == 3
\* expiry_date of the tokens the admin issued before the run.
ExpiryT1 == 7
ExpiryT2 == 8
ExpiryT3 == 9

(* --------------------------- configuration ---------------------------- *)
Clients == {"c1", "c2", "c3"}

\* part_004: the visitor id of the browser, cached for the process lifetime.
getDeviceFingerprint(c) ==
  CASE c = "c1" -> "f1"
    [] c = "c2" -> "f2"
    [] OTHER    -> "f3"

\* process.env.NEXT_PUBLIC_ADMIN_USERNAME / NEXT_PUBLIC_ADMIN_PASSWORD
AdminUsername == "admin"
AdminPassword == "adminpw"
\* userId: 'admin', the special case of the admin session
AdminUserId == -1

NoUser == [id |-> 0, username |-> "", password |-> "", token |-> "", token_expiry |-> 0]
NoToken == [token |-> "", expiry_date |-> 0, is_used |-> FALSE, used_by |-> ""]

\* The local session record (localStorage key 'session'); NoSession is "absent".
NoSession ==
  [username |-> "", isLoggedIn |-> FALSE, tokenExpiry |-> 0, token |-> "",
   isAdmin |-> FALSE, deviceFingerprint |-> "", userId |-> 0, sessionId |-> 0]

\* The arguments and locals of the operation a client is running (or ran last).
NoArg ==
  [op |-> "none", username |-> "", password |-> "", token |-> "",
   userId |-> 0, user |-> NoUser, sessionId |-> 0, created_at |-> 0,
   expiry |-> 0, call |-> 0, session |-> NoSession, failed |-> FALSE]

\* The admin page before it is mounted: admin/page.tsx lines 31 and 35-38,
\* the state isAuthenticated and loginData of the page; the localStorage item
\* 'adminSession' of the browser; login: handleLogin is waiting for signIn.
NoAdminPage ==
  [adminSession |-> FALSE, isAuthenticated |-> FALSE, loginData |-> <<"", "">>,
   login |-> FALSE]

VARIABLES
  users,      \* table users: a set of rows
  tokens,     \* table tokens: a set of rows
  sessions,   \* table sessions: a sequence of rows, a row's id is its index
  clock,      \* the wall clock read by new Date()
  nextUserId, \* users.id default: the next fresh value
  local,      \* local[c]: client c's local session record
  pc,         \* pc[c]: where client c's running operation is suspended
  arg,        \* arg[c]: arguments and locals of c's operation
  res,        \* res[c]: outcome of c's last finished operation
  ncalls,     \* operations started so far
  isAuthenticated, \* isAuthenticated[c]: the SessionProvider state of client c
  toast,      \* toast[c]: the last error notification shown by client c
  adminPage,  \* adminPage[c]: the admin page of client c and its adminSession item
  activeBefore \* activeBefore[c]: the user's active rows when c's createSession was entered

vars ==
  <<users, tokens, sessions, clock, nextUserId, local, pc, arg, res, ncalls,
    isAuthenticated, toast, adminPage, activeBefore>>

(* ----------------------------- the store ------------------------------ *)
\* .eq('user_id', u).eq('is_active', true): ids of the matching rows, in id order
ActiveIds(S, u) == {i \in DOMAIN S : S[i].user_id = u /\ S[i].is_active}

\* The store without the partial unique index.
NoUniqueIndex(S, row) == FALSE

\* unique_active_session_per_user: an insert of an active row is rejected
\* when the user already has an active row.
UniqueViolation(S, row) == row.is_active /\ ActiveIds(S, row.user_id) # {}

\* .update({ is_active: false }).eq('user_id', u)
DeactivateUser(S, u) ==
  [i \in DOMAIN S |-> IF S[i].user_id = u THEN [S[i] EXCEPT !.is_active = FALSE] ELSE S[i]]

\* .update({ is_active: false }).eq('user_id', u).neq('id', keep)
DeactivateUserExcept(S, u, keep) ==
  [i \in DOMAIN S |->
     IF S[i].user_id = u /\ i # keep THEN [S[i] EXCEPT !.is_active = FALSE] ELSE S[i]]

\* An update that resets every row of the table.
DeactivateAll(S, sid) == [i \in DOMAIN S |-> [S[i] EXCEPT !.is_active = FALSE]]

\* .update({ is_active: false }).eq('session_id', sid)
DeactivateSession(S, sid) ==
  [i \in DOMAIN S |-> IF S[i].session_id = sid THEN [S[i] EXCEPT !.is_active = FALSE] ELSE S[i]]

\* .update({ last_active: now }).eq('session_id', sid)
TouchSession(S, sid, now) ==
  [i \in DOMAIN S |-> IF S[i].session_id = sid THEN [S[i] EXCEPT !.last_active = now] ELSE S[i]]

\* .eq('username', un): the matching user rows
UsersNamed(U, un) == {u \in U : u.username = un}

\* .eq('token', t): the matching token rows
TokensNamed(T, t) == {k \in T : k.token = t}

Min(S) == CHOOSE x \in S : \A y \in S : x <= y

\* activeSessions.reduce((newest, current) =>
\*   new Date(current.created_at) > new Date(newest.created_at) ? current : newest)
\* over the rows ids (in id order): the first row of greatest created_at.
RECURSIVE ReduceNewest(_, _, _)
ReduceNewest(S, ids, newest) ==
  IF ids = {} THEN newest
  ELSE LET cur == Min(ids)
       IN ReduceNewest(S, ids \ {cur},
            IF S[cur].created_at > S[newest].created_at THEN cur ELSE newest)

NewestSession(S, ids) == ReduceNewest(S, ids \ {Min(ids)}, Min(ids))

(* ------------------------------- Init --------------------------------- *)
InitUsers ==
  { [id |-> 1, username |-> "alice", password |-> "pwA", token |-> "T1", token_expiry |-> ExpiryT1],
    [id |-> 2, username |-> "bob",   password |-> "pwB", token |-> "T2", token_expiry |-> ExpiryT2] }

InitTokens ==
  { [token |-> "T1", expiry_date |-> ExpiryT1, is_used |-> TRUE, used_by |-> "alice"],
    [token |-> "T2", expiry_date |-> ExpiryT2, is_used |-> TRUE, used_by |-> "bob"],
    [token |-> "T3", expiry_date |-> ExpiryT3, is_used |-> FALSE, used_by |-> ""] }

Init ==
  /\ users = InitUsers
  /\ tokens = InitTokens
  /\ sessions = << >>
  /\ clock = 1
  /\ nextUserId = 3
  /\ local = [c \in Clients |-> NoSession]
  /\ pc = [c \in Clients |-> "idle"]
  /\ arg = [c \in Clients |-> NoArg]
  /\ res = [c \in Clients |-> "none"]
  /\ ncalls = 0
  /\ isAuthenticated = [c \in Clients |-> FALSE]
  /\ toast = [c \in Clients |-> ""]
  /\ adminPage = [c \in Clients |-> NoAdminPage]
  /\ activeBefore = [c \in Clients |-> [call |-> 0, rows |-> {}]]

(* ------------------------------ signIn -------------------------------- *)
\* The username/password pairs typed into the sign-in form: right and wrong
\* passwords of stored users, an unknown user, the admin pair and a wrong one.
SignInInputs ==
  { <<"alice", "pwA">>, <<"alice", "bad">>, <<"bob", "pwB">>, <<"ghost", "bad">>,
    <<AdminUsername, AdminPassword>>, <<AdminUsername, "bad">> }

\* A finished operation: the client is idle again with the outcome in res;
\* its arguments and locals are gone. What stays is whether one of its store
\* calls failed (the console.error lines of the operation).
FinishWith(c, outcome, failed) ==
  /\ pc' = [pc EXCEPT ![c] = "idle"]
  /\ res' = [res EXCEPT ![c] = outcome]
  /\ arg' = [arg EXCEPT ![c] = [NoArg EXCEPT !.failed = failed]]

Finish(c, outcome) == FinishWith(c, outcome, arg[c].failed)

\* An operation that finishes on a store call that failed.
FinishFailed(c, outcome) == FinishWith(c, outcome, TRUE)

\* A starting operation: an idle client; the operation's ordinal is kept.
Begin(c) ==
  /\ pc[c] = "idle"
  /\ ncalls < MaxCalls
  /\ ncalls' = ncalls + 1

StartArg(op) == [NoArg EXCEPT !.op = op, !.call = ncalls + 1]

\* An id generator that hands out one value again and again.
uuidReused(c) == 1

\* uuidv4(): a fresh value; the ordinal of the calling operation serves as it.
uuidv4(c) == ncalls + 1

\* signIn, lines 197-221: the fingerprint, then the admin branch, which
\* touches no table.
signIn_Begin(c, un, pw) ==
  /\ Begin(c)
  /\ IF un = AdminUsername
     THEN IF pw = AdminPassword
          THEN /\ local' = [local EXCEPT ![c] =
                    [NoSession EXCEPT !.username = un, !.isLoggedIn = TRUE, !.isAdmin = TRUE,
                                      !.deviceFingerprint = getDeviceFingerprint(c),
                                      !.sessionId = uuidv4(c), !.userId = AdminUserId]]
               /\ FinishWith(c, "ok", FALSE)
          ELSE /\ FinishWith(c, "InvalidCredentials", FALSE)
               /\ UNCHANGED local
     ELSE /\ pc' = [pc EXCEPT ![c] = "signIn_lookup"]
          /\ arg' = [arg EXCEPT ![c] = [StartArg("signIn") EXCEPT !.username = un, !.password = pw]]
          /\ UNCHANGED <<local, res>>
  /\ UNCHANGED <<users, tokens, sessions, clock, nextUserId, isAuthenticated, toast>>
  /\ UNCHANGED <<adminPage, activeBefore>>

\* lines 223-233: .from('users').select('*').eq('username', username).single()
\* fails unless exactly one row matches. The password is not compared.
signIn_Lookup(c) ==
  /\ pc[c] = "signIn_lookup"
  /\ LET rows == UsersNamed(users, arg[c].username)
     IN IF Cardinality(rows) # 1
        THEN Finish(c, "InvalidCredentials")
        ELSE /\ arg' = [arg EXCEPT ![c].user = CHOOSE u \in rows : TRUE]
             /\ pc' = [pc EXCEPT ![c] = "signIn_check"]
             /\ UNCHANGED res
  /\ UNCHANGED <<users, tokens, sessions, clock, nextUserId, local, ncalls, isAuthenticated, toast>>
  /\ UNCHANGED <<adminPage, activeBefore>>

\* A sign-in that skips the check for a session on another browser.
ElsewhereNotChecked(S, u, f) == FALSE

\* lines 244-249: the first active session of the user has another fingerprint
LoggedInElsewhere(S, u, f) ==
  /\ ActiveIds(S, u) # {}
  /\ S[Min(ActiveIds(S, u))].device_fingerprint # f

\* lines 235-249, then createSession's line 39 (uuidv4) up to its first await
signIn_Check(c) ==
  /\ pc[c] = "signIn_check"
  /\ IF LoggedInElsewhere(sessions, arg[c].user.id, getDeviceFingerprint(c))
     THEN Finish(c, "AlreadyLoggedInElsewhere")
     ELSE /\ arg' = [arg EXCEPT ![c].userId = arg[c].user.id, ![c].sessionId = arg[c].call]
          /\ pc' = [pc EXCEPT ![c] = "createSession_deactivate"]
          /\ UNCHANGED res
  /\ UNCHANGED <<users, tokens, sessions, clock, nextUserId, local, ncalls, isAuthenticated, toast>>
  /\ UNCHANGED <<adminPage, activeBefore>>

(* --------------------------- createSession ---------------------------- *)
\* lines 41-53: deactivate every session of the user, then the 500 ms timer
createSession_Deactivate(c) ==
  /\ pc[c] = "createSession_deactivate"
  /\ sessions' = DeactivateUser(sessions, arg[c].userId)
  /\ pc' = [pc EXCEPT ![c] = "createSession_wait"]
  /\ UNCHANGED <<users, tokens, clock, nextUserId, local, arg, res, ncalls, isAuthenticated, toast>>
  /\ UNCHANGED <<adminPage, activeBefore>>

\* lines 56-65: the timer has fired; the row is built on the client, its
\* created_at read from the clock before the request leaves.
createSession_Stamp(c) ==
  /\ pc[c] = "createSession_wait"
  /\ arg' = [arg EXCEPT ![c].created_at = clock]
  /\ clock' = clock + 1
  /\ pc' = [pc EXCEPT ![c] = "createSession_insert"]
  /\ UNCHANGED <<users, tokens, sessions, nextUserId, local, res, ncalls, isAuthenticated, toast>>
  /\ UNCHANGED <<adminPage, activeBefore>>

\* The row of lines 58-65.
NewSessionRow(c) ==
  [user_id |-> arg[c].userId, session_id |-> arg[c].sessionId,
   device_fingerprint |-> getDeviceFingerprint(c), is_active |-> TRUE,
   created_at |-> arg[c].created_at, last_active |-> arg[c].created_at]

\* lines 56-70: the store applies the insert, or rejects it (unique index);
\* signIn (lines 256-259) turns any error of createSession into
\* 'Failed to create session. Please try again.'
createSession_Insert(c) ==
  /\ pc[c] = "createSession_insert"
  /\ IF UniqueViolation(sessions, NewSessionRow(c))
     THEN /\ Finish(c, "SessionCreateFailed")
          /\ UNCHANGED sessions
     ELSE /\ sessions' = Append(sessions, NewSessionRow(c))
          /\ pc' = [pc EXCEPT ![c] = "createSession_verify"]
          /\ UNCHANGED <<arg, res>>
  /\ UNCHANGED <<users, tokens, clock, nextUserId, local, ncalls, isAuthenticated, toast>>
  /\ UNCHANGED <<adminPage, activeBefore>>

\* A local session saved without the ids of the user and of the session.
UserSessionUnbound(c) ==
  [username |-> arg[c].user.username, userId |-> 0, isLoggedIn |-> TRUE,
   sessionId |-> 0, token |-> arg[c].user.token,
   deviceFingerprint |-> getDeviceFingerprint(c), tokenExpiry |-> arg[c].user.token_expiry,
   isAdmin |-> FALSE]

\* signIn lines 261-272: the local session saved after createSession returned
UserSessionOf(c) ==
  [username |-> arg[c].user.username, userId |-> arg[c].user.id, isLoggedIn |-> TRUE,
   sessionId |-> arg[c].sessionId, token |-> arg[c].user.token,
   deviceFingerprint |-> getDeviceFingerprint(c), tokenExpiry |-> arg[c].user.token_expiry,
   isAdmin |-> FALSE]

\* A re-read that always reports another session.
ConflictAssumed(S, ids, sid) == TRUE

\* lines 88-103: more than one active row was read and the newest is not
\* the row of this call
ConcurrentSessionConflict(S, ids, sid) ==
  Cardinality(ids) > 1 /\ S[NewestSession(S, ids)].session_id # sid

\* lines 72-106: re-read the active sessions of the user and reconcile. The
\* unique index never lets the read return two rows, so the reconcile update
\* of lines 94-98 is kept in this step.
createSession_Verify(c) ==
  /\ pc[c] = "createSession_verify"
  /\ LET ids == ActiveIds(sessions, arg[c].userId)
     IN IF ids = {}
        THEN /\ Finish(c, "SessionCreateFailed")
             /\ UNCHANGED <<sessions, local>>
        ELSE /\ sessions' = IF Cardinality(ids) > 1
                            THEN DeactivateUserExcept(sessions, arg[c].userId,
                                                      NewestSession(sessions, ids))
                            ELSE sessions
             /\ IF ConcurrentSessionConflict(sessions, ids, arg[c].sessionId)
                THEN /\ Finish(c, "SessionCreateFailed")
                     /\ UNCHANGED local
                ELSE /\ local' = [local EXCEPT ![c] = UserSessionOf(c)]
                     /\ Finish(c, "ok")
  /\ UNCHANGED <<users, tokens, clock, nextUserId, ncalls, isAuthenticated, toast>>
  /\ UNCHANGED <<adminPage, activeBefore>>

(* ------------------- checkSession: the last steps --------------------- *)
\* part_002 lines 191-247: validateSession of the SessionProvider awaits
\* checkSession; isAuthenticated is set when a session came back and reset
\* when null came back or an error was thrown, whose message is shown.
Provider(c, sessionData, message) ==
  /\ isAuthenticated' = [isAuthenticated EXCEPT ![c] = sessionData]
  /\ toast' = IF message = "" THEN toast ELSE [toast EXCEPT ![c] = message]

\* A clearSession that removes nothing.
clearSessionSkipped(L, c) == L

\* auth.ts lines 428-430: localStorage.removeItem('session')
clearSession(L, c) == [L EXCEPT ![c] = NoSession]

\* auth.ts lines 513-522: the session read at the start of checkSession with
\* the user row's username, id and token
UpdatedSession(c) ==
  [arg[c].session EXCEPT !.username = arg[c].user.username, !.userId = arg[c].user.id,
                         !.isLoggedIn = TRUE, !.isAdmin = FALSE, !.token = arg[c].user.token]

\* auth.ts lines 505-527: validateSession returned valid. On false the session
\* read at the start is returned and the local session is not touched; on
\* true the updated session is saved and returned.
checkSession_Validated(c, valid, failed) ==
  /\ IF valid
     THEN /\ local' = [local EXCEPT ![c] = UpdatedSession(c)]
          /\ FinishWith(c, "session", failed)
     ELSE /\ UNCHANGED local
          /\ FinishWith(c, "stale", failed)
  /\ Provider(c, TRUE, "")

(* -------------------------- validateSession --------------------------- *)
\* validateSession returns valid, to its caller or, called at line 505 of
\* checkSession, into the rest of checkSession, which runs in the same turn.
validateSession_Return(c, valid, failed) ==
  IF arg[c].op = "checkSession"
  THEN checkSession_Validated(c, valid, failed)
  ELSE /\ FinishWith(c, IF valid THEN "true" ELSE "false", failed)
       /\ UNCHANGED <<local, isAuthenticated, toast>>

\* lines 132-137: validateSession(sessionId, userId) reads the fingerprint
validateSession_Begin(c, sid, uid) ==
  /\ Begin(c)
  /\ arg' = [arg EXCEPT ![c] = [StartArg("validateSession") EXCEPT !.sessionId = sid, !.userId = uid]]
  /\ pc' = [pc EXCEPT ![c] = "validateSession_select"]
  /\ UNCHANGED <<users, tokens, sessions, clock, nextUserId, local, res, isAuthenticated, toast>>
  /\ UNCHANGED <<adminPage, activeBefore>>

\* A lookup that does not ask for the user.
MatchingAnyUser(S, sid, uid) ==
  {i \in DOMAIN S : S[i].session_id = sid /\ S[i].is_active}

\* A lookup that does not ask for is_active.
MatchingAny(S, sid, uid) ==
  {i \in DOMAIN S : S[i].session_id = sid /\ S[i].user_id = uid}

\* .eq('session_id', sid).eq('user_id', uid).eq('is_active', true)
MatchingActive(S, sid, uid) ==
  {i \in DOMAIN S : S[i].session_id = sid /\ S[i].user_id = uid /\ S[i].is_active}

\* A validation that never compares the fingerprint.
FingerprintNotCompared(row, f) == FALSE

\* line 159
FingerprintMismatch(row, f) == row.device_fingerprint # f

\* lines 139-169: .single() fails unless exactly one row matches
validateSession_Select(c) ==
  /\ pc[c] = "validateSession_select"
  /\ LET ids == MatchingActive(sessions, arg[c].sessionId, arg[c].userId)
     IN IF Cardinality(ids) # 1
        THEN validateSession_Return(c, FALSE, arg[c].failed)
        ELSE /\ pc' = [pc EXCEPT ![c] =
                  IF FingerprintMismatch(sessions[Min(ids)], getDeviceFingerprint(c))
                  THEN "validateSession_deactivate" ELSE "validateSession_touch"]
             /\ UNCHANGED <<arg, res, local, isAuthenticated, toast>>
  /\ UNCHANGED <<users, tokens, sessions, clock, nextUserId, ncalls>>
  /\ UNCHANGED <<adminPage, activeBefore>>

\* lines 160-166: the mismatching session is deactivated, the result is false
validateSession_Deactivate(c) ==
  /\ pc[c] = "validateSession_deactivate"
  /\ sessions' = DeactivateSession(sessions, arg[c].sessionId)
  /\ validateSession_Return(c, FALSE, arg[c].failed)
  /\ UNCHANGED <<users, tokens, clock, nextUserId, ncalls>>
  /\ UNCHANGED <<adminPage, activeBefore>>

\* lines 171-182: last_active is refreshed, the result is true
validateSession_Touch(c) ==
  /\ pc[c] = "validateSession_touch"
  /\ sessions' = TouchSession(sessions, arg[c].sessionId, clock)
  /\ validateSession_Return(c, TRUE, arg[c].failed)
  /\ UNCHANGED <<users, tokens, clock, nextUserId, ncalls>>
  /\ UNCHANGED <<adminPage, activeBefore>>

(* ---------------------------- checkSession ---------------------------- *)
\* A session check that takes a local session for present.
LocalSessionAssumed(session) == FALSE

\* auth.ts line 434: !session || !session.isLoggedIn
NoLocalSession(session) == ~session.isLoggedIn

\* A check that trusts the admin mark by itself.
AdminMarkTrusted(session) == TRUE

\* auth.ts line 438: session.username === NEXT_PUBLIC_ADMIN_USERNAME
AdminTrusted(session) == session.username = AdminUsername

\* auth.ts lines 432-446, called by the SessionProvider (poll, mount or a
\* users event): no local session gives null; an admin session is trusted
\* by its username; otherwise the user row is fetched.
checkSession_Begin(c) ==
  /\ Begin(c)
  /\ LET session == local[c]
     IN IF NoLocalSession(session)
        THEN /\ FinishWith(c, "null", FALSE)
             /\ Provider(c, FALSE, "")
             /\ UNCHANGED local
        ELSE IF session.isAdmin
        THEN IF AdminTrusted(session)
             THEN /\ FinishWith(c, "session", FALSE)
                  /\ Provider(c, TRUE, "")
                  /\ UNCHANGED local
             ELSE /\ local' = clearSession(local, c)
                  /\ FinishWith(c, "null", FALSE)
                  /\ Provider(c, FALSE, "")
        ELSE /\ arg' = [arg EXCEPT ![c] =
                  [StartArg("checkSession") EXCEPT !.session = session]]
             /\ pc' = [pc EXCEPT ![c] = "checkSession_user"]
             /\ UNCHANGED <<local, res, isAuthenticated, toast>>
  /\ UNCHANGED <<users, tokens, sessions, clock, nextUserId>>
  /\ UNCHANGED <<adminPage, activeBefore>>

\* auth.ts lines 448-468: .single() on users by the session's username; no
\* row is error PGRST116: the session is cleared and an error thrown.
checkSession_User(c) ==
  /\ pc[c] = "checkSession_user"
  /\ LET rows == UsersNamed(users, arg[c].session.username)
     IN IF Cardinality(rows) # 1
        THEN /\ local' = clearSession(local, c)
             /\ Finish(c, "AccessRevoked")
             /\ Provider(c, FALSE, "AccessRevoked")
        ELSE /\ arg' = [arg EXCEPT ![c].user = CHOOSE u \in rows : TRUE]
             /\ pc' = [pc EXCEPT ![c] = "checkSession_token"]
             /\ UNCHANGED <<local, res, isAuthenticated, toast>>
  /\ UNCHANGED <<users, tokens, sessions, clock, nextUserId, ncalls>>
  /\ UNCHANGED <<adminPage, activeBefore>>

\* A session check that takes no token for expired.
NeverExpired(tokenData, now) == FALSE

\* auth.ts line 492: expiryDate < new Date()
Expired(tokenData, now) == tokenData.expiry_date < now

\* auth.ts lines 485-501: the error thrown for the rows read from tokens
TokenError(rows, now) ==
  IF Cardinality(rows) # 1 THEN "InvalidToken"
  ELSE IF Expired(CHOOSE k \in rows : TRUE, now) THEN "TokenExpired"
  ELSE "TokenDeactivated"

\* auth.ts lines 470-511: .single() on tokens by the user's token; no row,
\* an expired row and a row not marked used each clear the session and throw;
\* otherwise validateSession is called with the session's ids.
checkSession_Token(c) ==
  /\ pc[c] = "checkSession_token"
  /\ LET rows == TokensNamed(tokens, arg[c].user.token)
         session == arg[c].session
     IN IF Cardinality(rows) # 1 \/ Expired(CHOOSE k \in rows : TRUE, clock)
           \/ ~(CHOOSE k \in rows : TRUE).is_used
        THEN /\ local' = clearSession(local, c)
             /\ Finish(c, TokenError(rows, clock))
             /\ Provider(c, FALSE, TokenError(rows, clock))
        ELSE IF session.sessionId # 0 /\ session.userId # 0
        THEN /\ arg' = [arg EXCEPT ![c].sessionId = session.sessionId,
                                   ![c].userId = session.userId]
             /\ pc' = [pc EXCEPT ![c] = "validateSession_select"]
             /\ UNCHANGED <<local, res, isAuthenticated, toast>>
        ELSE checkSession_Validated(c, TRUE, arg[c].failed)
  /\ UNCHANGED <<users, tokens, sessions, clock, nextUserId, ncalls>>
  /\ UNCHANGED <<adminPage, activeBefore>>

(* ------------------------------ signUp -------------------------------- *)
\* The username/token pairs typed into the sign-up form: a taken and two
\* free usernames; a used, an unused and an unknown token.
SignUpInputs == {"alice", "carol", "dave"} \X {"T1", "T3", "TX"}

\* users.username is unique: an insert of a second row of that username is
\* rejected.
UsernameViolation(U, row) == UsersNamed(U, row.username) # {}

\* A sign-up that skips the check for an existing username.
UsernameNotChecked(U, un) == FALSE

\* lines 289-301: .select('username').eq('username', username).single()
\* returned a row
UsernameExists(U, un) == Cardinality(UsersNamed(U, un)) = 1

\* lines 304-317: .single() on tokens did not return exactly one row
TokenMissing(T, t) == Cardinality(TokensNamed(T, t)) # 1

\* A sign-up that skips the check of is_used.
UsedNotChecked(tokenData) == FALSE

\* line 320
TokenUsed(tokenData) == tokenData.is_used

\* signUp, lines 280-286: the fingerprint is read first
signUp_Begin(c, un, tok) ==
  /\ Begin(c)
  /\ arg' = [arg EXCEPT ![c] = [StartArg("signUp") EXCEPT !.username = un, !.password = "pw", !.token = tok]]
  /\ pc' = [pc EXCEPT ![c] = "signUp_checkUser"]
  /\ UNCHANGED <<users, tokens, sessions, clock, nextUserId, local, res, isAuthenticated, toast>>
  /\ UNCHANGED <<adminPage, activeBefore>>

\* lines 288-301
signUp_CheckUser(c) ==
  /\ pc[c] = "signUp_checkUser"
  /\ IF UsernameExists(users, arg[c].username)
     THEN Finish(c, "UsernameTaken")
     ELSE /\ pc' = [pc EXCEPT ![c] = "signUp_token"]
          /\ UNCHANGED <<arg, res>>
  /\ UNCHANGED <<users, tokens, sessions, clock, nextUserId, local, ncalls, isAuthenticated, toast>>
  /\ UNCHANGED <<adminPage, activeBefore>>

\* lines 303-332: the token row is read; its expiry_date is kept for the insert
signUp_Token(c) ==
  /\ pc[c] = "signUp_token"
  /\ IF TokenMissing(tokens, arg[c].token)
     THEN Finish(c, "InvalidToken")
     ELSE LET tokenData == CHOOSE k \in TokensNamed(tokens, arg[c].token) : TRUE
          IN IF TokenUsed(tokenData)
             THEN Finish(c, "TokenAlreadyUsed")
             ELSE /\ arg' = [arg EXCEPT ![c].expiry = tokenData.expiry_date]
                  /\ pc' = [pc EXCEPT ![c] = "signUp_insert"]
                  /\ UNCHANGED res
  /\ UNCHANGED <<users, tokens, sessions, clock, nextUserId, local, ncalls, isAuthenticated, toast>>
  /\ UNCHANGED <<adminPage, activeBefore>>

\* The row of lines 325-332 with the id the store gives it.
NewUserRow(c) ==
  [id |-> nextUserId, username |-> arg[c].username, password |-> arg[c].password,
   token |-> arg[c].token, token_expiry |-> arg[c].expiry]

\* lines 340-354: the user row is inserted, or the insert is rejected
signUp_Insert(c) ==
  /\ pc[c] = "signUp_insert"
  /\ IF UsernameViolation(users, NewUserRow(c))
     THEN /\ Finish(c, "CreateUserFailed")
          /\ UNCHANGED <<users, nextUserId>>
     ELSE /\ users' = users \cup {NewUserRow(c)}
          /\ nextUserId' = nextUserId + 1
          /\ pc' = [pc EXCEPT ![c] = "signUp_mark"]
          /\ UNCHANGED <<arg, res>>
  /\ UNCHANGED <<tokens, sessions, clock, local, ncalls, isAuthenticated, toast>>
  /\ UNCHANGED <<adminPage, activeBefore>>

\* A sign-up whose token update changes no row.
MarkNothing(T, t, un) == T

\* .update({ is_used: true, used_by: username }).eq('token', t)
MarkTokenUsed(T, t, un) ==
  {IF k.token = t THEN [k EXCEPT !.is_used = TRUE, !.used_by = un] ELSE k : k \in T}

\* lines 356-379: the token is marked used, the new user is returned
signUp_Mark(c) ==
  /\ pc[c] = "signUp_mark"
  /\ tokens' = MarkTokenUsed(tokens, arg[c].token, arg[c].username)
  /\ Finish(c, "ok")
  /\ UNCHANGED <<users, sessions, clock, nextUserId, local, ncalls, isAuthenticated, toast>>
  /\ UNCHANGED <<adminPage, activeBefore>>

(* ------------------------ store calls that fail ----------------------- *)
\* A store call that fails (StoreUnavailable) returns an error to the caller
\* and applies nothing.

\* signIn lines 230-233: userError throws 'Invalid username or password'
signIn_Lookup_Fail(c) ==
  /\ pc[c] = "signIn_lookup"
  /\ FinishFailed(c, "InvalidCredentials")
  /\ UNCHANGED <<users, tokens, sessions, clock, nextUserId, local, ncalls, isAuthenticated, toast>>
  /\ UNCHANGED <<adminPage, activeBefore>>

\* signIn lines 242-243: sessionError is logged and createSession is called
signIn_Check_Fail(c) ==
  /\ pc[c] = "signIn_check"
  /\ arg' = [arg EXCEPT ![c].userId = arg[c].user.id, ![c].sessionId = arg[c].call,
                        ![c].failed = TRUE]
  /\ pc' = [pc EXCEPT ![c] = "createSession_deactivate"]
  /\ UNCHANGED <<users, tokens, sessions, clock, nextUserId, local, res, ncalls, isAuthenticated, toast>>
  /\ UNCHANGED <<adminPage, activeBefore>>

\* createSession lines 47-50, rethrown by signIn (lines 256-259)
createSession_Deactivate_Fail(c) ==
  /\ pc[c] = "createSession_deactivate"
  /\ FinishFailed(c, "SessionCreateFailed")
  /\ UNCHANGED <<users, tokens, sessions, clock, nextUserId, local, ncalls, isAuthenticated, toast>>
  /\ UNCHANGED <<adminPage, activeBefore>>

\* createSession lines 67-70
createSession_Insert_Fail(c) ==
  /\ pc[c] = "createSession_insert"
  /\ FinishFailed(c, "SessionCreateFailed")
  /\ UNCHANGED <<users, tokens, sessions, clock, nextUserId, local, ncalls, isAuthenticated, toast>>
  /\ UNCHANGED <<adminPage, activeBefore>>

\* createSession lines 79-82
createSession_Verify_Fail(c) ==
  /\ pc[c] = "createSession_verify"
  /\ FinishFailed(c, "SessionCreateFailed")
  /\ UNCHANGED <<users, tokens, sessions, clock, nextUserId, local, ncalls, isAuthenticated, toast>>
  /\ UNCHANGED <<adminPage, activeBefore>>

\* validateSession lines 148-151: the error of the select gives false
validateSession_Select_Fail(c) ==
  /\ pc[c] = "validateSession_select"
  /\ validateSession_Return(c, FALSE, TRUE)
  /\ UNCHANGED <<users, tokens, sessions, clock, nextUserId, ncalls>>
  /\ UNCHANGED <<adminPage, activeBefore>>

\* validateSession lines 162-166: the result of the update is not looked at
validateSession_Deactivate_Fail(c) ==
  /\ pc[c] = "validateSession_deactivate"
  /\ validateSession_Return(c, FALSE, TRUE)
  /\ UNCHANGED <<users, tokens, sessions, clock, nextUserId, ncalls>>
  /\ UNCHANGED <<adminPage, activeBefore>>

\* A validation that fails when the last_active update does.
validateSession_Touch_FailStrict(c) ==
  /\ pc[c] = "validateSession_touch"
  /\ validateSession_Return(c, FALSE, TRUE)
  /\ UNCHANGED <<users, tokens, sessions, clock, nextUserId, ncalls>>
  /\ UNCHANGED <<adminPage, activeBefore>>

\* validateSession lines 177-182: updateError is logged, the result is true
validateSession_Touch_Fail(c) ==
  /\ pc[c] = "validateSession_touch"
  /\ validateSession_Return(c, TRUE, TRUE)
  /\ UNCHANGED <<users, tokens, sessions, clock, nextUserId, ncalls>>
  /\ UNCHANGED <<adminPage, activeBefore>>

\* checkSession lines 455-460: an error other than PGRST116 returns the
\* session read at the start
checkSession_User_Fail(c) ==
  /\ pc[c] = "checkSession_user"
  /\ FinishFailed(c, "stale")
  /\ Provider(c, TRUE, "")
  /\ UNCHANGED <<users, tokens, sessions, clock, nextUserId, local, ncalls>>
  /\ UNCHANGED <<adminPage, activeBefore>>

\* A session check that clears the session when the token lookup fails.
checkSession_Token_FailClears(c) ==
  /\ pc[c] = "checkSession_token"
  /\ local' = clearSession(local, c)
  /\ FinishFailed(c, "InvalidToken")
  /\ Provider(c, FALSE, "InvalidToken")
  /\ UNCHANGED <<users, tokens, sessions, clock, nextUserId, ncalls>>
  /\ UNCHANGED <<adminPage, activeBefore>>

\* checkSession lines 477-482
checkSession_Token_Fail(c) ==
  /\ pc[c] = "checkSession_token"
  /\ FinishFailed(c, "stale")
  /\ Provider(c, TRUE, "")
  /\ UNCHANGED <<users, tokens, sessions, clock, nextUserId, local, ncalls>>
  /\ UNCHANGED <<adminPage, activeBefore>>

\* signUp lines 295-301: userCheckError is logged; existingUser is null
signUp_CheckUser_Fail(c) ==
  /\ pc[c] = "signUp_checkUser"
  /\ arg' = [arg EXCEPT ![c].failed = TRUE]
  /\ pc' = [pc EXCEPT ![c] = "signUp_token"]
  /\ UNCHANGED <<users, tokens, sessions, clock, nextUserId, local, res, ncalls, isAuthenticated, toast>>
  /\ UNCHANGED <<adminPage, activeBefore>>

\* signUp lines 310-313
signUp_Token_Fail(c) ==
  /\ pc[c] = "signUp_token"
  /\ FinishFailed(c, "InvalidToken")
  /\ UNCHANGED <<users, tokens, sessions, clock, nextUserId, local, ncalls, isAuthenticated, toast>>
  /\ UNCHANGED <<adminPage, activeBefore>>

\* signUp lines 346-354
signUp_Insert_Fail(c) ==
  /\ pc[c] = "signUp_insert"
  /\ FinishFailed(c, "CreateUserFailed")
  /\ UNCHANGED <<users, tokens, sessions, clock, nextUserId, local, ncalls, isAuthenticated, toast>>
  /\ UNCHANGED <<adminPage, activeBefore>>

\* signUp lines 365-379: updateError is logged and the new user returned
signUp_Mark_Fail(c) ==
  /\ pc[c] = "signUp_mark"
  /\ FinishFailed(c, "ok")
  /\ UNCHANGED <<users, tokens, sessions, clock, nextUserId, local, ncalls, isAuthenticated, toast>>
  /\ UNCHANGED <<adminPage, activeBefore>>

(* ------------------- SessionProvider: change events ------------------- *)
\* A record that an event does not carry.
NoSessionRow ==
  [user_id |-> 0, session_id |-> 0, device_fingerprint |-> "", is_active |-> FALSE,
   created_at |-> 0, last_active |-> 0]

\* The value of a property an object does not have.
Undefined == -1

\* session.created_at, read from the parsed local session record
created_at_of(session) ==
  IF "created_at" \in DOMAIN session THEN session.created_at ELSE Undefined

\* new Date(a) > new Date(b): false when either date is invalid
DateAfter(a, b) == a # Undefined /\ b # Undefined /\ a > b

\* The stored users whose row was deleted since.
DeletedUsers == {u \in InitUsers : \A v \in users : v.id # u.id}

\* Events of table users as the handler reads them (eventType, old_record,
\* new_record), for the changes the table went through: the delete of a row,
\* with the old record or without it; the insert of a row; the update that
\* changed a row's token; and an update of a row that leaves its token.
\* The subscription asks for the rows of the local username and user id
\* (part_002 lines 257-277); the handlers test both again, so the events are
\* handed to every browser.
UserEvents ==
  {[eventType |-> "DELETE", old_record |-> u, new_record |-> NoUser] : u \in DeletedUsers}
  \cup {[eventType |-> "DELETE", old_record |-> NoUser, new_record |-> NoUser] :
          u \in DeletedUsers}
  \cup {[eventType |-> "INSERT", old_record |-> NoUser, new_record |-> v] :
          v \in {w \in users : \A u \in InitUsers : u.id # w.id}}
  \cup {[eventType |-> "UPDATE", old_record |-> uv[1], new_record |-> uv[2]] :
          uv \in {xy \in InitUsers \X users : xy[1].id = xy[2].id /\ xy[1] # xy[2]}}
  \cup {[eventType |-> "UPDATE", old_record |-> v, new_record |-> v] : v \in users}

\* Events of table sessions: the insert of a row of the table (rows are
\* inserted active), an update that leaves it active, and, for a row that is
\* inactive by now, the updates that reset is_active or found it reset. No
\* code deletes a session row or sets is_active back to true.
SessionEvents ==
  {[eventType |-> "INSERT", old_record |-> NoSessionRow,
    new_record |-> [sessions[i] EXCEPT !.is_active = TRUE]] : i \in DOMAIN sessions}
  \cup {[eventType |-> "UPDATE", old_record |-> [sessions[i] EXCEPT !.is_active = TRUE],
         new_record |-> [sessions[i] EXCEPT !.is_active = TRUE]] : i \in DOMAIN sessions}
  \cup {[eventType |-> "UPDATE", old_record |-> [sessions[i] EXCEPT !.is_active = a],
         new_record |-> sessions[i]] :
          i \in {j \in DOMAIN sessions : ~sessions[j].is_active}, a \in BOOLEAN}

\* part_002 lines 52-71, 83-102, 138-155, 168-185: the local session is
\* removed, the provider's state reset and a notification shown
ClearLocal(c, message) ==
  /\ local' = [local EXCEPT ![c] = NoSession]
  /\ isAuthenticated' = [isAuthenticated EXCEPT ![c] = FALSE]
  /\ toast' = [toast EXCEPT ![c] = message]

\* A handler that lets the deletion of the user pass.
DeletionIgnored(payload, session) == FALSE

\* part_002 lines 49-50
UserDeleted(payload, session) ==
  /\ payload.eventType = "DELETE"
  /\ payload.old_record # NoUser
  /\ payload.old_record.username = session.username

\* A handler that lets a change of the token pass.
TokenChangeIgnored(payload, session) == FALSE

\* part_002 lines 79-81
TokenModified(payload, session) ==
  /\ payload.eventType = "UPDATE"
  /\ payload.old_record.username = session.username
  /\ (payload.new_record.token = "" \/ payload.new_record.token # payload.old_record.token)

\* part_002 lines 40-112. The validateSession() of line 110 is not awaited:
\* it starts a checkSession, taken here when no operation of the client is
\* running.
handleDatabaseChanges(c, payload) ==
  LET session == local[c]
  IN IF session.username = ""
     THEN UNCHANGED vars
     ELSE IF UserDeleted(payload, session) \/ TokenModified(payload, session)
     THEN /\ ClearLocal(c, IF UserDeleted(payload, session)
                           THEN "AccessRevokedByAdmin" ELSE "TokenModifiedByAdmin")
          /\ UNCHANGED <<users, tokens, sessions, clock, nextUserId, pc, arg, res, ncalls,
                         adminPage, activeBefore>>
     ELSE IF payload.new_record # NoUser /\ payload.new_record.username = session.username
     THEN checkSession_Begin(c)
     ELSE UNCHANGED vars

\* part_002 lines 126-135
NewerSessionElsewhere(payload, session) ==
  /\ payload.eventType \in {"INSERT", "UPDATE"}
  /\ payload.new_record.user_id = session.userId
  /\ payload.new_record.session_id # session.sessionId
  /\ payload.new_record.is_active
  /\ DateAfter(payload.new_record.created_at, created_at_of(session))

\* A handler that lets the deactivation of its own session pass.
OwnDeactivationIgnored(payload, session) == FALSE

\* part_002 lines 163-165
OwnSessionDeactivated(payload, session) ==
  /\ payload.eventType = "UPDATE"
  /\ payload.old_record.session_id = session.sessionId
  /\ ~payload.new_record.is_active

\* part_002 lines 114-189
handleSessionChanges(c, payload) ==
  LET session == local[c]
  IN IF session.sessionId = 0
     THEN UNCHANGED vars
     ELSE IF NewerSessionElsewhere(payload, session) \/ OwnSessionDeactivated(payload, session)
     THEN /\ ClearLocal(c, IF OwnSessionDeactivated(payload, session)
                           THEN "SessionDeactivated" ELSE "SignedInElsewhere")
          /\ UNCHANGED <<users, tokens, sessions, clock, nextUserId, pc, arg, res, ncalls,
                         adminPage, activeBefore>>
     ELSE UNCHANGED vars

(* ----------------------------- endSession ----------------------------- *)
\* auth.ts line 190: endSession(sessionId). The call creates nothing, so it
\* is not counted among the calls that do.
endSession_Begin(c, sid) ==
  /\ pc[c] = "idle"
  /\ arg' = [arg EXCEPT ![c] = [NoArg EXCEPT !.op = "endSession", !.sessionId = sid]]
  /\ pc' = [pc EXCEPT ![c] = "endSession_update"]
  /\ UNCHANGED <<users, tokens, sessions, clock, nextUserId, local, res, ncalls,
                 isAuthenticated, toast>>
  /\ UNCHANGED <<adminPage, activeBefore>>

\* lines 191-194: the update by session_id; its result is not looked at
endSession_Update(c) ==
  /\ pc[c] = "endSession_update"
  /\ sessions' = DeactivateSession(sessions, arg[c].sessionId)
  /\ Finish(c, "ended")
  /\ UNCHANGED <<users, tokens, clock, nextUserId, local, ncalls, isAuthenticated, toast>>
  /\ UNCHANGED <<adminPage, activeBefore>>

(* ------------------------------ signOut ------------------------------- *)
\* .update({ is_active: false }).eq('session_id', sid).eq('user_id', uid)
DeactivateSessionOf(S, sid, uid) ==
  [i \in DOMAIN S |->
     IF S[i].session_id = sid /\ S[i].user_id = uid
     THEN [S[i] EXCEPT !.is_active = FALSE] ELSE S[i]]

\* auth.ts lines 387-390 and 403-406: the local session is read; without a
\* sessionId and a userId in it there is no store call. Not counted either.
signOut_Begin(c) ==
  /\ pc[c] = "idle"
  /\ IF local[c].sessionId # 0 /\ local[c].userId # 0
     THEN /\ arg' = [arg EXCEPT ![c] = [NoArg EXCEPT !.op = "signOut",
                       !.sessionId = local[c].sessionId, !.userId = local[c].userId]]
          /\ pc' = [pc EXCEPT ![c] = "signOut_update"]
          /\ UNCHANGED <<local, res>>
     ELSE /\ local' = clearSession(local, c)
          /\ res' = [res EXCEPT ![c] = "signedOut"]
          /\ UNCHANGED <<pc, arg>>
  /\ UNCHANGED <<users, tokens, sessions, clock, nextUserId, ncalls, isAuthenticated, toast>>
  /\ UNCHANGED <<adminPage, activeBefore>>

\* lines 391-406: the session row is deactivated and the local session cleared
signOut_Update(c) ==
  /\ pc[c] = "signOut_update"
  /\ sessions' = DeactivateSessionOf(sessions, arg[c].sessionId, arg[c].userId)
  /\ local' = clearSession(local, c)
  /\ Finish(c, "signedOut")
  /\ UNCHANGED <<users, tokens, clock, nextUserId, ncalls, isAuthenticated, toast>>
  /\ UNCHANGED <<adminPage, activeBefore>>

\* A failed update that leaves signOut before the local session is cleared.
signOut_Update_FailKept(c) ==
  /\ pc[c] = "signOut_update"
  /\ FinishFailed(c, "signedOut")
  /\ UNCHANGED <<users, tokens, sessions, clock, nextUserId, local, ncalls, isAuthenticated, toast>>
  /\ UNCHANGED <<adminPage, activeBefore>>

\* lines 397-399 and 403-406: the update fails; the error is logged and the
\* local session cleared
signOut_Update_Fail(c) ==
  /\ pc[c] = "signOut_update"
  /\ local' = clearSession(local, c)
  /\ FinishFailed(c, "signedOut")
  /\ UNCHANGED <<users, tokens, sessions, clock, nextUserId, ncalls, isAuthenticated, toast>>
  /\ UNCHANGED <<adminPage, activeBefore>>

(* ------------------------ admin: handleDeleteUser --------------------- *)
\* admin/page.tsx line 236: the delete button of a listed user
handleDeleteUser_Begin(c, userId) ==
  /\ Begin(c)
  /\ arg' = [arg EXCEPT ![c] = [StartArg("handleDeleteUser") EXCEPT !.userId = userId]]
  /\ pc' = [pc EXCEPT ![c] = "handleDeleteUser_lookup"]
  /\ UNCHANGED <<users, tokens, sessions, clock, nextUserId, local, res, isAuthenticated, toast>>
  /\ UNCHANGED <<adminPage, activeBefore>>

\* lines 239-248: .select('token').eq('id', userId).single()
handleDeleteUser_Lookup(c) ==
  /\ pc[c] = "handleDeleteUser_lookup"
  /\ LET rows == {u \in users : u.id = arg[c].userId}
     IN IF Cardinality(rows) # 1
        THEN Finish(c, "DeleteUserFailed")
        ELSE /\ arg' = [arg EXCEPT ![c].token = (CHOOSE u \in rows : TRUE).token]
             /\ pc' = [pc EXCEPT ![c] =
                  IF (CHOOSE u \in rows : TRUE).token # ""
                  THEN "handleDeleteUser_token" ELSE "handleDeleteUser_user"]
             /\ UNCHANGED res
  /\ UNCHANGED <<users, tokens, sessions, clock, nextUserId, local, ncalls, isAuthenticated, toast>>
  /\ UNCHANGED <<adminPage, activeBefore>>

\* The token delete of lines 251-261 left out: the next step is reached with
\* the token table as it was.
handleDeleteUser_TokenKept(c) ==
  /\ pc[c] = "handleDeleteUser_token"
  /\ pc' = [pc EXCEPT ![c] = "handleDeleteUser_user"]
  /\ UNCHANGED <<users, tokens, sessions, clock, nextUserId, local, arg, res, ncalls, isAuthenticated, toast>>
  /\ UNCHANGED <<adminPage, activeBefore>>

\* lines 251-261: .from('tokens').delete().eq('token', userData.token)
handleDeleteUser_Token(c) ==
  /\ pc[c] = "handleDeleteUser_token"
  /\ tokens' = tokens \ TokensNamed(tokens, arg[c].token)
  /\ pc' = [pc EXCEPT ![c] = "handleDeleteUser_user"]
  /\ UNCHANGED <<users, sessions, clock, nextUserId, local, arg, res, ncalls, isAuthenticated, toast>>
  /\ UNCHANGED <<adminPage, activeBefore>>

\* lines 264-281: .from('users').delete().eq('id', userId)
handleDeleteUser_User(c) ==
  /\ pc[c] = "handleDeleteUser_user"
  /\ users' = {u \in users : u.id # arg[c].userId}
  /\ Finish(c, "ok")
  /\ UNCHANGED <<tokens, sessions, clock, nextUserId, local, ncalls, isAuthenticated, toast>>
  /\ UNCHANGED <<adminPage, activeBefore>>

(* --------------------- admin: handleDeleteUserToken ------------------- *)
\* admin/page.tsx line 288: the delete-token button of a listed user, with
\* the id and the token of the listed row
handleDeleteUserToken_Begin(c, userId, token) ==
  /\ Begin(c)
  /\ arg' = [arg EXCEPT ![c] =
       [StartArg("handleDeleteUserToken") EXCEPT !.userId = userId, !.token = token]]
  /\ pc' = [pc EXCEPT ![c] = "handleDeleteUserToken_find"]
  /\ UNCHANGED <<users, tokens, sessions, clock, nextUserId, local, res, isAuthenticated, toast>>
  /\ UNCHANGED <<adminPage, activeBefore>>

\* lines 293-302: .select('id').eq('token', token).single()
handleDeleteUserToken_Find(c) ==
  /\ pc[c] = "handleDeleteUserToken_find"
  /\ IF Cardinality(TokensNamed(tokens, arg[c].token)) # 1
     THEN Finish(c, "DeleteTokenFailed")
     ELSE /\ pc' = [pc EXCEPT ![c] = "handleDeleteUserToken_user"]
          /\ UNCHANGED <<arg, res>>
  /\ UNCHANGED <<users, tokens, sessions, clock, nextUserId, local, ncalls, isAuthenticated, toast>>
  /\ UNCHANGED <<adminPage, activeBefore>>

\* .update({ token: '' }).eq('id', userId)
ClearUserToken(U, userId) ==
  {IF u.id = userId THEN [u EXCEPT !.token = ""] ELSE u : u \in U}

\* lines 307-315
handleDeleteUserToken_User(c) ==
  /\ pc[c] = "handleDeleteUserToken_user"
  /\ users' = ClearUserToken(users, arg[c].userId)
  /\ pc' = [pc EXCEPT ![c] = "handleDeleteUserToken_token"]
  /\ UNCHANGED <<tokens, sessions, clock, nextUserId, local, arg, res, ncalls, isAuthenticated, toast>>
  /\ UNCHANGED <<adminPage, activeBefore>>

\* lines 320-344: the token row found at the start is deleted
handleDeleteUserToken_Token(c) ==
  /\ pc[c] = "handleDeleteUserToken_token"
  /\ tokens' = tokens \ TokensNamed(tokens, arg[c].token)
  /\ Finish(c, "ok")
  /\ UNCHANGED <<users, sessions, clock, nextUserId, local, ncalls, isAuthenticated, toast>>
  /\ UNCHANGED <<adminPage, activeBefore>>

(* ----------------------- admin: handleRenewToken ---------------------- *)
\* admin/page.tsx lines 371-372: the new token, a random string, here a name
\* no other call produces
NewTokenOf(c) == "N" \o ToString(arg[c].call)

\* lines 374-385: the time a renewed token lasts
RenewDuration == 3

\* line 368: the renew button of a listed user, with the id and the token of
\* the listed row
handleRenewToken_Begin(c, userId, oldToken) ==
  /\ Begin(c)
  /\ arg' = [arg EXCEPT ![c] =
       [StartArg("handleRenewToken") EXCEPT !.userId = userId, !.token = oldToken]]
  /\ pc' = [pc EXCEPT ![c] = "handleRenewToken_delete"]
  /\ UNCHANGED <<users, tokens, sessions, clock, nextUserId, local, res, isAuthenticated, toast>>
  /\ UNCHANGED <<adminPage, activeBefore>>

\* An old token that is released for another sign-up instead of deleted.
ReleaseTokens(T, t) ==
  {IF k.token = t THEN [k EXCEPT !.is_used = FALSE] ELSE k : k \in T}

\* .from('tokens').delete().eq('token', t)
DeleteTokens(T, t) == T \ TokensNamed(T, t)

\* lines 387-395: if (oldToken) the old token row is deleted
handleRenewToken_Delete(c) ==
  /\ pc[c] = "handleRenewToken_delete"
  /\ tokens' = IF arg[c].token # "" THEN DeleteTokens(tokens, arg[c].token) ELSE tokens
  /\ pc' = [pc EXCEPT ![c] = "handleRenewToken_insert"]
  /\ UNCHANGED <<users, sessions, clock, nextUserId, local, arg, res, ncalls, isAuthenticated, toast>>
  /\ UNCHANGED <<adminPage, activeBefore>>

\* The row of lines 401-407.
RenewedTokenRow(c) ==
  [token |-> NewTokenOf(c), expiry_date |-> clock + RenewDuration,
   is_used |-> TRUE, used_by |-> ""]

\* lines 398-410
handleRenewToken_Insert(c) ==
  /\ pc[c] = "handleRenewToken_insert"
  /\ tokens' = tokens \cup {RenewedTokenRow(c)}
  /\ pc' = [pc EXCEPT ![c] = "handleRenewToken_user"]
  /\ UNCHANGED <<users, sessions, clock, nextUserId, local, arg, res, ncalls, isAuthenticated, toast>>
  /\ UNCHANGED <<adminPage, activeBefore>>

\* lines 413-421: .update({ token: newToken }).eq('id', userId)
handleRenewToken_User(c) ==
  /\ pc[c] = "handleRenewToken_user"
  /\ users' = {IF u.id = arg[c].userId THEN [u EXCEPT !.token = NewTokenOf(c)] ELSE u :
                 u \in users}
  /\ Finish(c, "ok")
  /\ UNCHANGED <<tokens, sessions, clock, nextUserId, local, ncalls, isAuthenticated, toast>>
  /\ UNCHANGED <<adminPage, activeBefore>>

(* -------------------- admin: handleDeleteUnusedToken ------------------ *)
\* lines 126-129 and 652-660: the delete button is shown for the tokens of
\* the fetched list that no fetched user holds
UnusedTokens == {k \in tokens : \A u \in users : u.token # k.token}

\* line 351
handleDeleteUnusedToken_Begin(c, token) ==
  /\ Begin(c)
  /\ arg' = [arg EXCEPT ![c] = [StartArg("handleDeleteUnusedToken") EXCEPT !.token = token]]
  /\ pc' = [pc EXCEPT ![c] = "handleDeleteUnusedToken_delete"]
  /\ UNCHANGED <<users, tokens, sessions, clock, nextUserId, local, res, isAuthenticated, toast>>
  /\ UNCHANGED <<adminPage, activeBefore>>

\* lines 353-358: .from('tokens').delete().eq('id', tokenId)
handleDeleteUnusedToken_Delete(c) ==
  /\ pc[c] = "handleDeleteUnusedToken_delete"
  /\ tokens' = tokens \ TokensNamed(tokens, arg[c].token)
  /\ Finish(c, "ok")
  /\ UNCHANGED <<users, sessions, clock, nextUserId, local, ncalls, isAuthenticated, toast>>
  /\ UNCHANGED <<adminPage, activeBefore>>

(* ---------------------- admin: handleExpiredTokens -------------------- *)
\* user.expiry_date, read from a row of table users. signUp writes the
\* expiry of the token to the column token_expiry (auth.ts line 331), and no
\* statement of the code writes a column expiry_date of a user.
expiry_date_of(user) ==
  IF "expiry_date" \in DOMAIN user THEN user.expiry_date ELSE Undefined

\* lines 466-471: user.token && user.expiry_date, and the expiry has passed
SweepFinds(user, now) ==
  /\ user.token # ""
  /\ expiry_date_of(user) # Undefined
  /\ now > expiry_date_of(user)

\* line 453: the sweep starts, when the admin page opens and every minute
handleExpiredTokens_Begin(c) ==
  /\ Begin(c)
  /\ arg' = [arg EXCEPT ![c] = StartArg("handleExpiredTokens")]
  /\ pc' = [pc EXCEPT ![c] = "handleExpiredTokens_sweep"]
  /\ UNCHANGED <<users, tokens, sessions, clock, nextUserId, local, res, isAuthenticated, toast>>
  /\ UNCHANGED <<adminPage, activeBefore>>

\* lines 455-498: for each user found expired, the user's token is cleared
\* and the token row deleted
handleExpiredTokens_Sweep(c) ==
  /\ pc[c] = "handleExpiredTokens_sweep"
  /\ LET found == {u \in users : SweepFinds(u, clock)}
     IN /\ users' = {IF u \in found THEN [u EXCEPT !.token = ""] ELSE u : u \in users}
        /\ tokens' = {k \in tokens : \A u \in found : u.token # k.token}
  /\ Finish(c, "ok")
  /\ UNCHANGED <<sessions, clock, nextUserId, local, ncalls, isAuthenticated, toast>>
  /\ UNCHANGED <<adminPage, activeBefore>>

(* -------------------------------- time -------------------------------- *)
\* The clock runs on between operations, here to just past the expiry_date
\* of a token.
TimePasses ==
  /\ \E k \in tokens : clock <= k.expiry_date /\ clock' = k.expiry_date + 1
  /\ UNCHANGED <<users, tokens, sessions, nextUserId, local, pc, arg, res, ncalls, isAuthenticated, toast>>
  /\ UNCHANGED <<adminPage, activeBefore>>

(* ------------------------- the specifications ------------------------- *)
SessionIds == {sessions[i].session_id : i \in DOMAIN sessions}
UserIds == {u.id : u \in users}

\* Concurrent sign-ins with every input: the createSession calls and nothing
\* else.
SignInStep(c) ==
  \/ \E in \in SignInInputs : signIn_Begin(c, in[1], in[2])
  \/ signIn_Lookup(c)
  \/ signIn_Check(c)
  \/ createSession_Deactivate(c)
  \/ createSession_Stamp(c)
  \/ createSession_Insert(c)
  \/ createSession_Verify(c)

\* The session protocol of one account: concurrent sign-ins of alice from the
\* three browsers, and validations of any session under any user id.
SessionStep(c) ==
  \/ signIn_Begin(c, "alice", "pwA")
  \/ signIn_Lookup(c)
  \/ signIn_Check(c)
  \/ createSession_Deactivate(c)
  \/ createSession_Stamp(c)
  \/ createSession_Insert(c)
  \/ createSession_Verify(c)
  \/ \E sid \in SessionIds, uid \in UserIds : validateSession_Begin(c, sid, uid)
  \/ validateSession_Select(c)
  \/ validateSession_Deactivate(c)
  \/ validateSession_Touch(c)

\* Concurrent sign-ups.
SignUpStep(c) ==
  \/ \E in \in SignUpInputs : signUp_Begin(c, in[1], in[2])
  \/ signUp_CheckUser(c)
  \/ signUp_Token(c)
  \/ signUp_Insert(c)
  \/ signUp_Mark(c)

Next == \E c \in Clients : SessionStep(c)

Spec == Init /\ [][Next]_vars

NextSignIn == \E c \in Clients : SignInStep(c)

SpecSignIn == Init /\ [][NextSignIn]_vars

NextSignUp == \E c \in Clients : SignUpStep(c)

SpecSignUp == Init /\ [][NextSignUp]_vars

\* One operation at a time: a client steps only while every other is idle.
Alone(c) == \A d \in Clients \ {c} : pc[d] = "idle"

NextSeq ==
  \E c \in Clients :
    \/ Alone(c) /\ \E in \in SignInInputs : signIn_Begin(c, in[1], in[2])
    \/ Alone(c) /\ signIn_Lookup(c)
    \/ Alone(c) /\ signIn_Check(c)
    \/ Alone(c) /\ createSession_Deactivate(c)
    \/ Alone(c) /\ createSession_Stamp(c)
    \/ Alone(c) /\ createSession_Insert(c)
    \/ Alone(c) /\ createSession_Verify(c)
    \/ Alone(c) /\ \E sid \in SessionIds, uid \in UserIds : validateSession_Begin(c, sid, uid)
    \/ Alone(c) /\ validateSession_Select(c)
    \/ Alone(c) /\ validateSession_Deactivate(c)
    \/ Alone(c) /\ validateSession_Touch(c)
    \/ Alone(c) /\ \E in \in SignUpInputs : signUp_Begin(c, in[1], in[2])
    \/ Alone(c) /\ signUp_CheckUser(c)
    \/ Alone(c) /\ signUp_Token(c)
    \/ Alone(c) /\ signUp_Insert(c)
    \/ Alone(c) /\ signUp_Mark(c)

SpecSeq == Init /\ [][NextSeq]_vars

\* Sign-ins and sign-ups, one operation at a time, over a store whose calls
\* can fail.
NextFail ==
  \E c \in Clients :
    \/ Alone(c) /\ \E in \in SignInInputs : signIn_Begin(c, in[1], in[2])
    \/ Alone(c) /\ signIn_Lookup(c)
    \/ Alone(c) /\ signIn_Lookup_Fail(c)
    \/ Alone(c) /\ signIn_Check(c)
    \/ Alone(c) /\ signIn_Check_Fail(c)
    \/ Alone(c) /\ createSession_Deactivate(c)
    \/ Alone(c) /\ createSession_Deactivate_Fail(c)
    \/ Alone(c) /\ createSession_Stamp(c)
    \/ Alone(c) /\ createSession_Insert(c)
    \/ Alone(c) /\ createSession_Insert_Fail(c)
    \/ Alone(c) /\ createSession_Verify(c)
    \/ Alone(c) /\ createSession_Verify_Fail(c)
    \/ Alone(c) /\ \E in \in SignUpInputs : signUp_Begin(c, in[1], in[2])
    \/ Alone(c) /\ signUp_CheckUser(c)
    \/ Alone(c) /\ signUp_CheckUser_Fail(c)
    \/ Alone(c) /\ signUp_Token(c)
    \/ Alone(c) /\ signUp_Token_Fail(c)
    \/ Alone(c) /\ signUp_Insert(c)
    \/ Alone(c) /\ signUp_Insert_Fail(c)
    \/ Alone(c) /\ signUp_Mark(c)
    \/ Alone(c) /\ signUp_Mark_Fail(c)

SpecFail == Init /\ [][NextFail]_vars

\* The accounts the session checks are about: a stored user, a user who
\* signs up in the run, and the admin.
CheckSignIns == { <<"alice", "pwA">>, <<"carol", "pw">>, <<AdminUsername, AdminPassword>> }

\* The poll of checkSession: sign-ins and a sign-up that give browsers their
\* local sessions, the session checks, the admin deleting a user and time
\* running past expiry dates, one operation at a time over a store whose
\* calls can fail.
NextCheck ==
  \/ \E c \in Clients :
       \/ Alone(c) /\ \E in \in CheckSignIns : signIn_Begin(c, in[1], in[2])
       \/ Alone(c) /\ signIn_Lookup(c)
       \/ Alone(c) /\ signIn_Check(c)
       \/ Alone(c) /\ createSession_Deactivate(c)
       \/ Alone(c) /\ createSession_Stamp(c)
       \/ Alone(c) /\ createSession_Insert(c)
       \/ Alone(c) /\ createSession_Verify(c)
       \/ Alone(c) /\ signUp_Begin(c, "carol", "T3")
       \/ Alone(c) /\ signUp_CheckUser(c)
       \/ Alone(c) /\ signUp_Token(c)
       \/ Alone(c) /\ signUp_Insert(c)
       \/ Alone(c) /\ signUp_Mark(c)
       \/ Alone(c) /\ signUp_Mark_Fail(c)
       \/ Alone(c) /\ checkSession_Begin(c)
       \/ Alone(c) /\ checkSession_User(c)
       \/ Alone(c) /\ checkSession_User_Fail(c)
       \/ Alone(c) /\ checkSession_Token(c)
       \/ Alone(c) /\ checkSession_Token_Fail(c)
       \/ Alone(c) /\ validateSession_Select(c)
       \/ Alone(c) /\ validateSession_Select_Fail(c)
       \/ Alone(c) /\ validateSession_Touch(c)
       \/ Alone(c) /\ \E u \in UserIds : handleDeleteUser_Begin(c, u)
       \/ Alone(c) /\ handleDeleteUser_Lookup(c)
       \/ Alone(c) /\ handleDeleteUser_Token(c)
       \/ Alone(c) /\ handleDeleteUser_User(c)
  \/ TimePasses

SpecCheck == Init /\ [][NextCheck]_vars

\* The rows of the admin's user list that carry a token: id and token.
ListedTokens == {<<u.id, u.token>> : u \in {v \in users : v.token # ""}}

\* The push path: browsers signing in concurrently; a session check or an
\* admin operation running while nothing else is in progress; and the change
\* events of the two tables arriving at any moment.
NextPush ==
  \E c \in Clients :
    \/ signIn_Begin(c, "alice", "pwA")
    \/ signIn_Lookup(c)
    \/ signIn_Check(c)
    \/ createSession_Deactivate(c)
    \/ createSession_Stamp(c)
    \/ createSession_Insert(c)
    \/ createSession_Verify(c)
    \/ Alone(c) /\ checkSession_Begin(c)
    \/ Alone(c) /\ checkSession_User(c)
    \/ Alone(c) /\ checkSession_Token(c)
    \/ Alone(c) /\ validateSession_Select(c)
    \/ Alone(c) /\ validateSession_Touch(c)
    \/ Alone(c) /\ \E u \in UserIds : handleDeleteUser_Begin(c, u)
    \/ Alone(c) /\ handleDeleteUser_Lookup(c)
    \/ Alone(c) /\ handleDeleteUser_Token(c)
    \/ Alone(c) /\ handleDeleteUser_User(c)
    \/ Alone(c) /\ \E ut \in ListedTokens : handleDeleteUserToken_Begin(c, ut[1], ut[2])
    \/ Alone(c) /\ handleDeleteUserToken_Find(c)
    \/ Alone(c) /\ handleDeleteUserToken_User(c)
    \/ Alone(c) /\ handleDeleteUserToken_Token(c)
    \/ \E payload \in UserEvents : handleDatabaseChanges(c, payload)
    \/ \E payload \in SessionEvents : handleSessionChanges(c, payload)

SpecPush == Init /\ [][NextPush]_vars

\* The rows of the admin's user list: id and token.
ListedUsers == {<<u.id, u.token>> : u \in users}

\* The browser the admin console runs in.
AdminConsole == "c3"

AdminAlone(c) == c = AdminConsole /\ Alone(c)

\* The browser of the user whose account the admin works on.
UserBrowser == "c1"

UserAlone(c) == c = UserBrowser /\ Alone(c)

\* The accounts and their tokens over time, one operation at a time: a
\* sign-up, sign-ins, session checks and sign-outs of the browsers, the
\* admin's operations on users and tokens in the admin console, and the clock.
NextAdmin ==
  \/ \E c \in Clients :
       \/ UserAlone(c) /\ signIn_Begin(c, "alice", "pwA")
       \/ UserAlone(c) /\ signIn_Lookup(c)
       \/ UserAlone(c) /\ signIn_Check(c)
       \/ UserAlone(c) /\ createSession_Deactivate(c)
       \/ UserAlone(c) /\ createSession_Stamp(c)
       \/ UserAlone(c) /\ createSession_Insert(c)
       \/ UserAlone(c) /\ createSession_Verify(c)
       \/ UserAlone(c) /\ signUp_Begin(c, "carol", "T3")
       \/ UserAlone(c) /\ signUp_CheckUser(c)
       \/ UserAlone(c) /\ signUp_Token(c)
       \/ UserAlone(c) /\ signUp_Insert(c)
       \/ UserAlone(c) /\ signUp_Mark(c)
       \/ UserAlone(c) /\ checkSession_Begin(c)
       \/ UserAlone(c) /\ checkSession_User(c)
       \/ UserAlone(c) /\ checkSession_Token(c)
       \/ UserAlone(c) /\ validateSession_Select(c)
       \/ UserAlone(c) /\ validateSession_Touch(c)
       \/ UserAlone(c) /\ signOut_Begin(c)
       \/ UserAlone(c) /\ signOut_Update(c)
       \/ AdminAlone(c) /\ \E u \in UserIds : handleDeleteUser_Begin(c, u)
       \/ AdminAlone(c) /\ handleDeleteUser_Lookup(c)
       \/ AdminAlone(c) /\ handleDeleteUser_Token(c)
       \/ AdminAlone(c) /\ handleDeleteUser_User(c)
       \/ AdminAlone(c) /\ \E ut \in ListedTokens : handleDeleteUserToken_Begin(c, ut[1], ut[2])
       \/ AdminAlone(c) /\ handleDeleteUserToken_Find(c)
       \/ AdminAlone(c) /\ handleDeleteUserToken_User(c)
       \/ AdminAlone(c) /\ handleDeleteUserToken_Token(c)
       \/ AdminAlone(c) /\ \E ut \in ListedUsers : handleRenewToken_Begin(c, ut[1], ut[2])
       \/ AdminAlone(c) /\ handleRenewToken_Delete(c)
       \/ AdminAlone(c) /\ handleRenewToken_Insert(c)
       \/ AdminAlone(c) /\ handleRenewToken_User(c)
       \/ AdminAlone(c) /\ \E k \in UnusedTokens : handleDeleteUnusedToken_Begin(c, k.token)
       \/ AdminAlone(c) /\ handleDeleteUnusedToken_Delete(c)
       \/ AdminAlone(c) /\ handleExpiredTokens_Begin(c)
       \/ AdminAlone(c) /\ handleExpiredTokens_Sweep(c)
  \/ TimePasses

SpecAdmin == Init /\ [][NextAdmin]_vars

\* The life of sessions, one operation at a time: sign-ins of a stored
\* user, sessions ended by id, sign-outs, and
\* validations of any session id under any user id, whose last_active
\* update can fail.
NextEnd ==
  \E c \in Clients :
    \/ Alone(c) /\ signIn_Begin(c, "alice", "pwA")
    \/ Alone(c) /\ signIn_Lookup(c)
    \/ Alone(c) /\ signIn_Check(c)
    \/ Alone(c) /\ createSession_Deactivate(c)
    \/ Alone(c) /\ createSession_Stamp(c)
    \/ Alone(c) /\ createSession_Insert(c)
    \/ Alone(c) /\ createSession_Verify(c)
    \/ Alone(c) /\ \E sid \in 1..MaxCalls : endSession_Begin(c, sid)
    \/ Alone(c) /\ endSession_Update(c)
    \/ Alone(c) /\ signOut_Begin(c)
    \/ Alone(c) /\ signOut_Update(c)
    \/ Alone(c) /\ \E sid \in 1..MaxCalls, uid \in UserIds : validateSession_Begin(c, sid, uid)
    \/ Alone(c) /\ validateSession_Select(c)
    \/ Alone(c) /\ validateSession_Deactivate(c)
    \/ Alone(c) /\ validateSession_Touch(c)
    \/ Alone(c) /\ validateSession_Touch_Fail(c)

SpecEnd == Init /\ [][NextEnd]_vars

\* auth.ts lines 414-426: getSession parses whatever record localStorage
\* holds, and the record is the browser user's to edit: here its username
\* and its admin mark.
localStorage_Edited(c, un, adm) ==
  /\ pc[c] = "idle"
  /\ local[c].isLoggedIn
  /\ local' = [local EXCEPT ![c] = [local[c] EXCEPT !.username = un, !.isAdmin = adm]]
  /\ local'[c] # local[c]
  /\ UNCHANGED <<users, tokens, sessions, clock, nextUserId, pc, arg, res, ncalls,
                 isAuthenticated, toast>>
  /\ UNCHANGED <<adminPage, activeBefore>>

\* The sign-ins of the local-session checks: a user, the admin, and the
\* admin's name with a wrong password.
LocalSignIns ==
  {<<"alice", "pwA">>, <<AdminUsername, AdminPassword>>, <<AdminUsername, "bad">>}

\* The local session record: sign-ins of a user and of the admin, session
\* checks, and edits of the stored record, one operation at a time.
NextLocal ==
  \E c \in Clients :
    \/ Alone(c) /\ \E in \in LocalSignIns : signIn_Begin(c, in[1], in[2])
    \/ Alone(c) /\ signIn_Lookup(c)
    \/ Alone(c) /\ signIn_Check(c)
    \/ Alone(c) /\ createSession_Deactivate(c)
    \/ Alone(c) /\ createSession_Stamp(c)
    \/ Alone(c) /\ createSession_Insert(c)
    \/ Alone(c) /\ createSession_Verify(c)
    \/ Alone(c) /\ checkSession_Begin(c)
    \/ Alone(c) /\ checkSession_User(c)
    \/ Alone(c) /\ checkSession_Token(c)
    \/ Alone(c) /\ validateSession_Select(c)
    \/ Alone(c) /\ validateSession_Touch(c)
    \/ Alone(c) /\ \E un \in {"alice", AdminUsername}, adm \in BOOLEAN :
                     localStorage_Edited(c, un, adm)

SpecLocal == Init /\ [][NextLocal]_vars

\* A renewal while the user is signed in: the user's browser signs in and
\* checks its session, the admin console renews tokens of listed users, and
\* the store calls of the two interleave freely.
NextRenew ==
  \E c \in Clients :
    \/ c = UserBrowser /\ signIn_Begin(c, "alice", "pwA")
    \/ c = UserBrowser /\ signIn_Lookup(c)
    \/ c = UserBrowser /\ signIn_Check(c)
    \/ c = UserBrowser /\ createSession_Deactivate(c)
    \/ c = UserBrowser /\ createSession_Stamp(c)
    \/ c = UserBrowser /\ createSession_Insert(c)
    \/ c = UserBrowser /\ createSession_Verify(c)
    \/ c = UserBrowser /\ checkSession_Begin(c)
    \/ c = UserBrowser /\ checkSession_User(c)
    \/ c = UserBrowser /\ checkSession_Token(c)
    \/ c = UserBrowser /\ validateSession_Select(c)
    \/ c = UserBrowser /\ validateSession_Touch(c)
    \/ c = AdminConsole /\ \E ut \in ListedUsers : handleRenewToken_Begin(c, ut[1], ut[2])
    \/ c = AdminConsole /\ handleRenewToken_Delete(c)
    \/ c = AdminConsole /\ handleRenewToken_Insert(c)
    \/ c = AdminConsole /\ handleRenewToken_User(c)

SpecRenew == Init /\ [][NextRenew]_vars

\* The sign-ins that give browsers a local session to sign out of: alice
\* in the first browser, bob in the second, the admin in the third.
SignOutSignIns ==
  { <<"c1", "alice", "pwA">>, <<"c2", "bob", "pwB">>, <<"c3", AdminUsername, AdminPassword>> }

\* Signing out: browsers sign in and sign out, the store calls of different
\* browsers interleave freely, and the update of signOut succeeds or fails.
NextOut ==
  \E c \in Clients :
    \/ \E in \in SignOutSignIns : in[1] = c /\ signIn_Begin(c, in[2], in[3])
    \/ signIn_Lookup(c)
    \/ signIn_Check(c)
    \/ createSession_Deactivate(c)
    \/ createSession_Stamp(c)
    \/ createSession_Insert(c)
    \/ createSession_Verify(c)
    \/ signOut_Begin(c)
    \/ signOut_Update(c)
    \/ signOut_Update_Fail(c)

SpecOut == Init /\ [][NextOut]_vars

\* A session check that is suspended on its store calls while the admin
\* revokes the user's token: the user's browser signs in and checks its
\* session, the admin console deletes the token of a listed user, the store
\* calls of the two interleave freely, and the change events reach the
\* user's browser at any moment, between two store calls of its session
\* check included.
NextResume ==
  \E c \in Clients :
    \/ c = UserBrowser /\ signIn_Begin(c, "alice", "pwA")
    \/ c = UserBrowser /\ signIn_Lookup(c)
    \/ c = UserBrowser /\ signIn_Check(c)
    \/ c = UserBrowser /\ createSession_Deactivate(c)
    \/ c = UserBrowser /\ createSession_Stamp(c)
    \/ c = UserBrowser /\ createSession_Insert(c)
    \/ c = UserBrowser /\ createSession_Verify(c)
    \/ c = UserBrowser /\ checkSession_Begin(c)
    \/ c = UserBrowser /\ checkSession_User(c)
    \/ c = UserBrowser /\ checkSession_Token(c)
    \/ c = UserBrowser /\ validateSession_Select(c)
    \/ c = UserBrowser /\ validateSession_Touch(c)
    \/ c = AdminConsole /\ \E ut \in ListedTokens : handleDeleteUserToken_Begin(c, ut[1], ut[2])
    \/ c = AdminConsole /\ handleDeleteUserToken_Find(c)
    \/ c = AdminConsole /\ handleDeleteUserToken_User(c)
    \/ c = AdminConsole /\ handleDeleteUserToken_Token(c)
    \/ c = UserBrowser /\ \E payload \in UserEvents : handleDatabaseChanges(c, payload)
    \/ c = UserBrowser /\ \E payload \in SessionEvents : handleSessionChanges(c, payload)

SpecResume == Init /\ [][NextResume]_vars

(* ------------------------ SessionProvider: poll ----------------------- *)
\* part_002 lines 292-327: runValidation calls the provider's validateSession,
\* which calls checkSession, and schedules itself again 3 seconds later, for
\* as long as the provider is mounted. The first step of checkSession as in
\* checkSession_Begin; the runs of the timer are not counted, there is no
\* last one.
runValidation(c) ==
  /\ pc[c] = "idle"
  /\ LET session == local[c]
     IN IF NoLocalSession(session)
        THEN /\ FinishWith(c, "null", FALSE)
             /\ Provider(c, FALSE, "")
             /\ UNCHANGED local
        ELSE IF session.isAdmin
        THEN IF AdminTrusted(session)
             THEN /\ FinishWith(c, "session", FALSE)
                  /\ Provider(c, TRUE, "")
                  /\ UNCHANGED local
             ELSE /\ local' = clearSession(local, c)
                  /\ FinishWith(c, "null", FALSE)
                  /\ Provider(c, FALSE, "")
        ELSE /\ arg' = [arg EXCEPT ![c] =
                  [NoArg EXCEPT !.op = "checkSession", !.session = session]]
             /\ pc' = [pc EXCEPT ![c] = "checkSession_user"]
             /\ UNCHANGED <<local, res, isAuthenticated, toast>>
  /\ UNCHANGED <<users, tokens, sessions, clock, nextUserId, ncalls>>
  /\ UNCHANGED <<adminPage, activeBefore>>

\* The browsers whose pages are open, with the timer of the poll running.
PollBrowsers == {"c1", "c2"}

\* One step of the poll in browser c: the timer fires, or a store call of
\* the session check it started returns.
PollStep(c) ==
  \/ runValidation(c)
  \/ checkSession_User(c)
  \/ checkSession_Token(c)
  \/ validateSession_Select(c)
  \/ validateSession_Touch(c)

\* The poll without the push channel: two browsers sign alice in, also at
\* the same time, and the poll of each runs every 3 seconds; no change event
\* is delivered.
NextPoll ==
  \E c \in PollBrowsers :
    \/ signIn_Begin(c, "alice", "pwA")
    \/ signIn_Lookup(c)
    \/ signIn_Check(c)
    \/ createSession_Deactivate(c)
    \/ createSession_Stamp(c)
    \/ createSession_Insert(c)
    \/ createSession_Verify(c)
    \/ runValidation(c)
    \/ checkSession_User(c)
    \/ checkSession_Token(c)
    \/ validateSession_Select(c)
    \/ validateSession_Touch(c)

\* A store call of a running signIn returns (auth.ts lines 224-259 and
\* 41-77: each call is awaited).
SignInReturns(c) ==
  \/ signIn_Lookup(c)
  \/ signIn_Check(c)
  \/ createSession_Deactivate(c)
  \/ createSession_Stamp(c)
  \/ createSession_Insert(c)
  \/ createSession_Verify(c)

\* The timer fires again and again and every store call returns: each
\* browser's poll keeps taking steps and no sign-in is left waiting.
SpecPoll ==
  /\ Init /\ [][NextPoll]_vars
  /\ \A c \in PollBrowsers : WF_vars(PollStep(c)) /\ WF_vars(SignInReturns(c))

(* --------------------------- admin: the page -------------------------- *)
\* admin/page.tsx lines 41-60, the effect run when the page is mounted: the
\* page is authenticated when the item 'adminSession' exists.
adminMount(c) ==
  /\ adminPage' = [adminPage EXCEPT ![c].isAuthenticated = adminPage[c].adminSession]
  /\ UNCHANGED <<users, tokens, sessions, clock, nextUserId, local, pc, arg, res, ncalls,
                 isAuthenticated, toast, activeBefore>>

\* The page authenticated by handleLogin, lines 179-180.
LoggedIn(page) ==
  [page EXCEPT !.adminSession = TRUE, !.isAuthenticated = TRUE, !.login = FALSE]

\* line 177: if (!adminSession.isLoggedIn) throw; the session returned by
\* signIn is the one it saved.
NotLoggedIn(session) == ~session.isLoggedIn

\* lines 173-186 with signIn lines 197-221: the login form of the page that
\* is not authenticated is submitted with loginData = (un, pw) and signIn is
\* called. With the admin username signIn returns in the same turn and so
\* does handleLogin; otherwise signIn goes on to the user lookup and
\* handleLogin waits for it.
handleLogin_Begin(c, un, pw) ==
  /\ Begin(c)
  /\ ~adminPage[c].isAuthenticated /\ ~adminPage[c].login
  /\ IF un = AdminUsername
     THEN IF pw = AdminPassword
          THEN /\ local' = [local EXCEPT ![c] =
                    [NoSession EXCEPT !.username = un, !.isLoggedIn = TRUE, !.isAdmin = TRUE,
                                      !.deviceFingerprint = getDeviceFingerprint(c),
                                      !.sessionId = uuidv4(c), !.userId = AdminUserId]]
               /\ FinishWith(c, "ok", FALSE)
               /\ adminPage' = [adminPage EXCEPT ![c] =
                    LoggedIn([adminPage[c] EXCEPT !.loginData = <<un, pw>>])]
               /\ UNCHANGED toast
          ELSE /\ FinishWith(c, "InvalidCredentials", FALSE)
               /\ adminPage' = [adminPage EXCEPT ![c].loginData = <<un, pw>>]
               /\ toast' = [toast EXCEPT ![c] = "InvalidCredentials"]
               /\ UNCHANGED local
     ELSE /\ pc' = [pc EXCEPT ![c] = "signIn_lookup"]
          /\ arg' = [arg EXCEPT ![c] = [StartArg("signIn") EXCEPT !.username = un, !.password = pw]]
          /\ adminPage' = [adminPage EXCEPT ![c].loginData = <<un, pw>>, ![c].login = TRUE]
          /\ UNCHANGED <<local, res, toast>>
  /\ UNCHANGED <<users, tokens, sessions, clock, nextUserId, isAuthenticated, activeBefore>>

\* lines 176-185: signIn has returned or thrown to the waiting handleLogin.
\* A returned session with isLoggedIn authenticates the page; an error is
\* shown.
handleLogin_Return(c) ==
  /\ adminPage[c].login /\ pc[c] = "idle"
  /\ IF res[c] = "ok" /\ ~NotLoggedIn(local[c])
     THEN /\ adminPage' = [adminPage EXCEPT ![c] = LoggedIn(adminPage[c])]
          /\ UNCHANGED toast
     ELSE /\ adminPage' = [adminPage EXCEPT ![c].login = FALSE]
          /\ toast' = [toast EXCEPT ![c] = res[c]]
  /\ UNCHANGED <<users, tokens, sessions, clock, nextUserId, local, pc, arg, res, ncalls,
                 isAuthenticated, activeBefore>>

\* lines 188-194: the logout button of the authenticated page
handleLogout(c) ==
  /\ adminPage[c].isAuthenticated
  /\ adminPage' = [adminPage EXCEPT ![c].adminSession = FALSE, ![c].isAuthenticated = FALSE]
  /\ UNCHANGED <<users, tokens, sessions, clock, nextUserId, local, pc, arg, res, ncalls,
                 isAuthenticated, toast, activeBefore>>

\* The management operations are on the page that is authenticated
\* (line 532).
Console(c) == c = AdminConsole /\ adminPage[c].isAuthenticated /\ Alone(c)

\* The admin page in one browser: it is mounted, the login form is submitted
\* with every input of the sign-in form, signIn runs, the page is logged
\* out, and on the authenticated page the admin deletes users.
NextConsole ==
  \E c \in Clients :
    \/ c = AdminConsole /\ adminMount(c)
    \/ c = AdminConsole /\ \E in \in SignInInputs : handleLogin_Begin(c, in[1], in[2])
    \/ c = AdminConsole /\ adminPage[c].login /\ signIn_Lookup(c)
    \/ c = AdminConsole /\ adminPage[c].login /\ signIn_Check(c)
    \/ c = AdminConsole /\ adminPage[c].login /\ createSession_Deactivate(c)
    \/ c = AdminConsole /\ adminPage[c].login /\ createSession_Stamp(c)
    \/ c = AdminConsole /\ adminPage[c].login /\ createSession_Insert(c)
    \/ c = AdminConsole /\ adminPage[c].login /\ createSession_Verify(c)
    \/ c = AdminConsole /\ handleLogin_Return(c)
    \/ c = AdminConsole /\ handleLogout(c)
    \/ Console(c) /\ \E u \in UserIds : handleDeleteUser_Begin(c, u)
    \/ Console(c) /\ handleDeleteUser_Lookup(c)
    \/ Console(c) /\ handleDeleteUser_Token(c)
    \/ Console(c) /\ handleDeleteUser_User(c)

SpecConsole == Init /\ [][NextConsole]_vars

(* ------------------- createSession: the state it found ---------------- *)
\* auth.ts lines 36-39: createSession is entered, before its first store
\* call. The rows of the user that are active at this moment are noted with
\* the ordinal of the call; nothing of the program changes.
createSession_Enter(c) ==
  /\ pc[c] = "createSession_deactivate"
  /\ activeBefore[c].call # arg[c].call
  /\ activeBefore' = [activeBefore EXCEPT ![c] =
       [call |-> arg[c].call,
        rows |-> {i \in DOMAIN sessions :
                   sessions[i].user_id = arg[c].userId /\ sessions[i].is_active}]]
  /\ UNCHANGED <<users, tokens, sessions, clock, nextUserId, local, pc, arg, res, ncalls,
                 isAuthenticated, toast, adminPage>>

\* createSession of c has been entered and has not made a store call yet.
Entered(c) == Alone(c) /\ activeBefore[c].call = arg[c].call

\* Sign-ins whose createSession fails: alice signs in again and again, one
\* call at a time, and each store call of createSession succeeds or fails.
NextRetry ==
  \E c \in Clients :
    \/ Alone(c) /\ signIn_Begin(c, "alice", "pwA")
    \/ Alone(c) /\ signIn_Lookup(c)
    \/ Alone(c) /\ signIn_Check(c)
    \/ Alone(c) /\ createSession_Enter(c)
    \/ Entered(c) /\ createSession_Deactivate(c)
    \/ Entered(c) /\ createSession_Deactivate_Fail(c)
    \/ Alone(c) /\ createSession_Stamp(c)
    \/ Alone(c) /\ createSession_Insert(c)
    \/ Alone(c) /\ createSession_Insert_Fail(c)
    \/ Alone(c) /\ createSession_Verify(c)
    \/ Alone(c) /\ createSession_Verify_Fail(c)

SpecRetry == Init /\ [][NextRetry]_vars

(* ------------------------------ claims -------------------------------- *)
\* c takes the step that ends its running operation op.
Ends(c, op) == arg[c].op = op /\ pc[c] # "idle" /\ pc'[c] = "idle"

\* The rows of user u that are active in table S.
ActiveRows(S, u) == {i \in DOMAIN S : S[i].user_id = u /\ S[i].is_active = TRUE}

\* C1: in every reachable state, the states between the store round-trips of
\* concurrent sign-ins included, each user_id has at most one session row
\* with is_active = true.
C1_OneActivePerUser ==
  \A i, j \in DOMAIN sessions :
    (sessions[i].user_id = sessions[j].user_id /\ sessions[i].is_active /\ sessions[j].is_active)
      => i = j

\* C1 witness: two createSession calls for one user are in flight, one has
\* inserted its active row and the other is about to insert.
C1_Witness ==
  \E c, d \in Clients :
    /\ pc[c] = "createSession_verify"
    /\ pc[d] = "createSession_insert"
    /\ arg[c].userId = arg[d].userId
    /\ ActiveRows(sessions, arg[c].userId) # {}

\* C2: once all createSession calls have completed, at most one session row
\* of a user is active, and it is the row with the greatest created_at among
\* the rows inserted for that user.
C2_NewestWins ==
  (\A c \in Clients : pc[c] = "idle") =>
    \A i \in DOMAIN sessions :
      sessions[i].is_active =>
        \A j \in DOMAIN sessions :
          (j # i /\ sessions[j].user_id = sessions[i].user_id) =>
            (~sessions[j].is_active /\ sessions[j].created_at < sessions[i].created_at)

\* C3: whenever createSession returns a sessionId, at that moment exactly one
\* session row of the user is active and its session_id is the returned one.
C3_ReturnedIsTheActive ==
  [][\A c \in Clients :
       (pc[c] = "createSession_verify" /\ pc'[c] = "idle" /\ res'[c] = "ok") =>
         /\ ActiveRows(sessions', arg[c].userId) # {}
         /\ \A i \in ActiveRows(sessions', arg[c].userId) :
              sessions'[i].session_id = arg[c].sessionId]_vars

\* C5: validateSession called for a session with a device fingerprint other
\* than the one stored at the session's creation returns false, and after
\* the call that session row has is_active = false.
C5_MismatchDeactivates ==
  [][\A c \in Clients : \A i \in DOMAIN sessions :
       ( /\ Ends(c, "validateSession")
         /\ sessions[i].session_id = arg[c].sessionId
         /\ sessions[i].user_id = arg[c].userId
         /\ sessions[i].device_fingerprint # getDeviceFingerprint(c) ) =>
         (res'[c] = "false" /\ sessions'[i].is_active = FALSE)]_vars

\* C5 witness: one sign-in and one validation have run; the validation came
\* from another browser, returned false and the session is now inactive.
C5_Witness ==
  /\ ncalls = 2
  /\ Len(sessions) = 1
  /\ sessions[1].is_active = FALSE
  /\ \E c \in Clients :
       /\ pc[c] = "idle"
       /\ res[c] = "false"
       /\ getDeviceFingerprint(c) # sessions[1].device_fingerprint

\* C6: a normal-user signIn fails with InvalidCredentials when no user row has
\* the username or the supplied password differs from the stored one; no
\* session row is created or changed and no local session is saved.
C6_BadCredentialsRejected ==
  [][\A c \in Clients :
       ( /\ arg[c].op = "signIn"
         /\ pc'[c] # pc[c]
         /\ ~\E u \in users : u.username = arg[c].username /\ u.password = arg[c].password ) =>
         /\ sessions' = sessions
         /\ local'[c] = local[c]
         /\ pc'[c] = "idle" => res'[c] = "InvalidCredentials"]_vars

\* The user named in c's signIn has an active session of another fingerprint.
ActiveElsewhere(c) ==
  \E u \in users : \E i \in ActiveRows(sessions, u.id) :
    u.username = arg[c].username /\ sessions[i].device_fingerprint # getDeviceFingerprint(c)

\* C7: with one operation at a time, a signIn for a stored user whose active
\* session has another fingerprint fails with AlreadyLoggedInElsewhere; no
\* step of it changes the session table or a local session, so the first
\* session stays active. A signIn that meets no such session succeeds.
C7_SecondDeviceRefused ==
  [][\A c \in Clients :
       ( /\ arg[c].op = "signIn"
         /\ pc'[c] # pc[c]
         /\ \E u \in users : u.username = arg[c].username ) =>
         IF ActiveElsewhere(c)
         THEN /\ sessions' = sessions /\ local' = local
              /\ pc'[c] \in {"signIn_check", "idle"}
              /\ pc'[c] = "idle" => res'[c] = "AlreadyLoggedInElsewhere"
         ELSE pc'[c] = "idle" => res'[c] = "ok"]_vars

\* C7 witness: the first device is signed in with its session active, the
\* second device's sign-in for the same user has been refused.
C7_Witness ==
  \E c, d \in Clients :
    /\ c # d
    /\ res[c] = "ok" /\ local[c].isLoggedIn /\ ~local[c].isAdmin
    /\ res[d] = "AlreadyLoggedInElsewhere" /\ pc[d] = "idle"
    /\ \E i \in ActiveRows(sessions, local[c].userId) :
         sessions[i].session_id = local[c].sessionId

\* C8: each token is consumed by at most one sign-up: at most one user row
\* ends up holding a given token.
C8_TokenConsumedOnce ==
  \A u, v \in users : (u.token # "" /\ u.token = v.token) => u = v

\* C9 (as stated): signUp with a token whose row has is_used = true always
\* fails with TokenAlreadyUsed, whatever the username, and inserts no user row.
C9_UsedTokenAlwaysTokenAlreadyUsed ==
  [][\A c \in Clients :
       ( /\ Ends(c, "signUp")
         /\ \E k \in tokens : k.token = arg[c].token /\ k.is_used ) =>
         (res'[c] = "TokenAlreadyUsed" /\ users' = users)]_vars

\* C9 (amended): a signUp step that meets a token row with is_used = true
\* inserts no user row; the call fails with UsernameTaken when the username
\* check finds a row of that username, and with TokenAlreadyUsed when the
\* token lookup is reached.
C9_UsedTokenRejected ==
  [][\A c \in Clients :
       ( /\ pc[c] \in {"signUp_checkUser", "signUp_token"}
         /\ pc'[c] # pc[c]
         /\ \E k \in tokens : k.token = arg[c].token /\ k.is_used ) =>
         /\ users' = users
         /\ pc[c] = "signUp_token" => (pc'[c] = "idle" /\ res'[c] = "TokenAlreadyUsed")
         /\ (pc[c] = "signUp_checkUser" /\ pc'[c] = "idle") =>
              (res'[c] = "UsernameTaken" /\ \E u \in users : u.username = arg[c].username)]_vars

\* C9 witness: a sign-up with a free username and the used token T1 has been
\* refused with TokenAlreadyUsed.
C9_Witness ==
  \E c \in Clients : pc[c] = "idle" /\ res[c] = "TokenAlreadyUsed" /\ users = InitUsers

\* C10: signUp fails with UsernameTaken when a user row of the username
\* exists, and otherwise with InvalidToken when no token row matches the
\* token; in both failures no user row is inserted and no token row modified.
C10_TakenOrInvalid ==
  [][\A c \in Clients :
       (pc[c] \in {"signUp_checkUser", "signUp_token"} /\ pc'[c] # pc[c]) =>
         /\ users' = users /\ tokens' = tokens
         /\ (pc[c] = "signUp_checkUser" /\ \E u \in users : u.username = arg[c].username) =>
              (pc'[c] = "idle" /\ res'[c] = "UsernameTaken")
         /\ (pc[c] = "signUp_token" /\ ~\E k \in tokens : k.token = arg[c].token) =>
              (pc'[c] = "idle" /\ res'[c] = "InvalidToken")]_vars

\* C10 witness: one sign-up was refused with UsernameTaken and another with
\* InvalidToken, and both tables are as they were.
C10_Witness ==
  /\ \E c \in Clients : pc[c] = "idle" /\ res[c] = "UsernameTaken"
  /\ \E c \in Clients : pc[c] = "idle" /\ res[c] = "InvalidToken"
  /\ users = InitUsers /\ tokens = InitTokens

C12_StoreFailureSurfaced ==
  [][\A c \in Clients :
       ((Ends(c, "signIn") \/ Ends(c, "signUp")) /\ arg'[c].failed) => res'[c] # "ok"]_vars

\* C13: a checkSession that cannot establish revocation - validateSession
\* returned false, or the user or the token lookup failed with a transient
\* store error - returns the stale local session and leaves the local
\* session record as it is.
C13_StaleSessionKept ==
  [][\A c \in Clients :
       ( /\ Ends(c, "checkSession")
         /\ \/ pc[c] \in {"checkSession_user", "checkSession_token"} /\ arg'[c].failed
            \/ pc[c] \in {"validateSession_select", "validateSession_deactivate"} ) =>
         /\ res'[c] = "stale"
         /\ local'[c] = local[c]
         /\ isAuthenticated'[c]]_vars

\* C13 witness: a session check ended on a failed store call with the stale
\* session, and the browser still holds its local session.
C13_Witness ==
  \E c \in Clients :
    /\ pc[c] = "idle" /\ res[c] = "stale" /\ arg[c].failed
    /\ local[c].isLoggedIn /\ ~local[c].isAdmin /\ isAuthenticated[c]

\* C14: a checkSession with a non-admin local session whose user row no
\* longer exists clears the local session and ends with the error
\* AccessRevoked, returning no session.
C14_UserGoneRevoked ==
  [][\A c \in Clients :
       ( /\ pc[c] = "checkSession_user" /\ pc'[c] # pc[c]
         /\ ~arg'[c].failed
         /\ ~\E u \in users : u.username = arg[c].session.username ) =>
         /\ pc'[c] = "idle"
         /\ res'[c] = "AccessRevoked"
         /\ local'[c] = NoSession
         /\ ~isAuthenticated'[c]]_vars

\* C14 witness: alice signed in, the admin deleted her user row, and her
\* browser's session check ended with AccessRevoked and no local session.
C14_Witness ==
  \E c \in Clients :
    /\ pc[c] = "idle" /\ res[c] = "AccessRevoked" /\ local[c] = NoSession
    /\ ~\E u \in users : u.username = "alice"
    /\ \E i \in DOMAIN sessions : sessions[i].user_id = 1

\* C15: checkSession re-fetches the token row of the user: when its
\* expiry_date has passed, the local session is cleared and the error is
\* TokenExpired; otherwise, when it is not marked used, the local session is
\* cleared and the error is TokenDeactivated. The local session is absent
\* afterwards in both cases.
C15_ExpiredOrDeactivated ==
  [][\A c \in Clients : \A k \in tokens :
       ( /\ pc[c] = "checkSession_token" /\ pc'[c] # pc[c]
         /\ ~arg'[c].failed
         /\ k.token = arg[c].user.token
         /\ (k.expiry_date < clock \/ ~k.is_used) ) =>
         /\ pc'[c] = "idle"
         /\ res'[c] = (IF k.expiry_date < clock THEN "TokenExpired" ELSE "TokenDeactivated")
         /\ local'[c] = NoSession
         /\ ~isAuthenticated'[c]]_vars

\* C15 witness: carol signed up with T3 but T3 was left unmarked, she signed
\* in, and her session check ended with TokenDeactivated and no local session.
C15_Witness ==
  \E c \in Clients :
    /\ pc[c] = "idle" /\ res[c] = "TokenDeactivated" /\ local[c] = NoSession
    /\ \E u \in users : u.username = "carol" /\ u.token = "T3"
    /\ \E k \in tokens : k.token = "T3" /\ ~k.is_used /\ k.expiry_date >= clock

\* What a clearing handler leaves: the local session is absent and the
\* provider is not authenticated.
Cleared(c) == local'[c] = NoSession /\ ~isAuthenticated'[c]

\* The session row that backs c's local session.
LocalRows(c) ==
  {j \in DOMAIN sessions :
     sessions[j].session_id = local[c].sessionId /\ sessions[j].user_id = local[c].userId}

\* C16: a session INSERT or UPDATE event for the local session's user_id,
\* with another session_id, is_active = true and a created_at newer than the
\* creation time of the local session, makes the coordinator clear the local
\* session and reset isAuthenticated.
C16_NewerSessionElsewhereClears ==
  \A c \in Clients : \A payload \in SessionEvents : \A j \in LocalRows(c) :
    ( /\ local[c].isLoggedIn /\ ~local[c].isAdmin
      /\ payload.eventType \in {"INSERT", "UPDATE"}
      /\ payload.new_record.user_id = local[c].userId
      /\ payload.new_record.session_id # local[c].sessionId
      /\ payload.new_record.is_active
      /\ payload.new_record.created_at > sessions[j].created_at ) =>
      ENABLED (handleSessionChanges(c, payload) /\ Cleared(c))

\* C17: an UPDATE event in which the row of the local session (same
\* session_id) has is_active = false makes the coordinator clear the local
\* session and reset isAuthenticated.
C17_OwnDeactivationClears ==
  \A c \in Clients : \A payload \in SessionEvents :
    ( /\ local[c].sessionId # 0
      /\ payload.eventType = "UPDATE"
      /\ payload.new_record.session_id = local[c].sessionId
      /\ ~payload.new_record.is_active ) =>
      /\ ENABLED (handleSessionChanges(c, payload) /\ Cleared(c))
      /\ ~ENABLED (handleSessionChanges(c, payload) /\ ~Cleared(c))

\* C17 witness: a browser that had signed in was told that its session was
\* deactivated; its local session is gone, and a session row of its
\* fingerprint is inactive.
C17_Witness ==
  \E c \in Clients :
    /\ toast[c] = "SessionDeactivated"
    /\ local[c] = NoSession /\ ~isAuthenticated[c]
    /\ \E i \in DOMAIN sessions :
         ~sessions[i].is_active /\ sessions[i].device_fingerprint = getDeviceFingerprint(c)

\* C18: a DELETE event for the user row of the local session's username
\* makes the coordinator clear the local session and reset isAuthenticated;
\* a DELETE event for another username leaves the local session as it is.
C18_UserDeletionClears ==
  \A c \in Clients : \A payload \in UserEvents :
    ( /\ local[c].username # ""
      /\ payload.eventType = "DELETE"
      /\ payload.old_record # NoUser ) =>
      IF payload.old_record.username = local[c].username
      THEN /\ ENABLED (handleDatabaseChanges(c, payload) /\ Cleared(c))
           /\ ~ENABLED (handleDatabaseChanges(c, payload) /\ ~Cleared(c))
      ELSE ~ENABLED (handleDatabaseChanges(c, payload) /\ local'[c] # local[c])

\* C18 witness: the admin deleted a user, and a browser that had signed in
\* was told that its user was deleted and holds no local session any more.
C18_Witness ==
  \E c \in Clients :
    /\ toast[c] = "AccessRevokedByAdmin"
    /\ local[c] = NoSession /\ ~isAuthenticated[c]
    /\ DeletedUsers # {}
    /\ \E i \in DOMAIN sessions : sessions[i].device_fingerprint = getDeviceFingerprint(c)

\* C19: an UPDATE event for the user row of the local session whose new
\* token is empty or differs from the old token makes the coordinator clear
\* the local session; an UPDATE that leaves the token as it was does not
\* clear it.
C19_TokenChangeClears ==
  \A c \in Clients : \A payload \in UserEvents :
    ( /\ local[c].username # ""
      /\ payload.eventType = "UPDATE"
      /\ payload.old_record.username = local[c].username ) =>
      IF payload.new_record.token = "" \/ payload.new_record.token # payload.old_record.token
      THEN /\ ENABLED (handleDatabaseChanges(c, payload) /\ Cleared(c))
           /\ ~ENABLED (handleDatabaseChanges(c, payload) /\ ~Cleared(c))
      ELSE ~ENABLED (handleDatabaseChanges(c, payload) /\ local'[c] # local[c])

\* C19 witness: the admin deleted a user's token, and a browser that had
\* signed in was told that its token was modified and holds no local session
\* any more.
C19_Witness ==
  \E c \in Clients :
    /\ toast[c] = "TokenModifiedByAdmin"
    /\ local[c] = NoSession /\ ~isAuthenticated[c]
    /\ \E u \in users : u.token = ""
    /\ \E i \in DOMAIN sessions : sessions[i].device_fingerprint = getDeviceFingerprint(c)

\* C20: with the local session already cleared, the push handlers change
\* nothing at all, and the session check of the poll returns at once: the
\* local session stays absent and no store row is modified. An invalidation
\* leaves the local session cleared, so a second run of it is such a run.
C20_ClearedIsNoOp ==
  \A c \in Clients :
    local[c] = NoSession =>
      /\ \A payload \in UserEvents :
           ~ENABLED (handleDatabaseChanges(c, payload) /\ ~UNCHANGED vars)
      /\ \A payload \in SessionEvents :
           ~ENABLED (handleSessionChanges(c, payload) /\ ~UNCHANGED vars)
      /\ ~ENABLED ( /\ checkSession_Begin(c)
                    /\ ~( /\ local' = local /\ pc'[c] = "idle" /\ res'[c] = "null"
                          /\ users' = users /\ tokens' = tokens /\ sessions' = sessions ) )

\* C20 witness: a handler cleared the local session of a browser, and the
\* session check that ran afterwards returned null and left it absent.
C20_Witness ==
  \E c \in Clients :
    /\ toast[c] \in {"SessionDeactivated", "AccessRevokedByAdmin", "TokenModifiedByAdmin"}
    /\ pc[c] = "idle" /\ res[c] = "null"
    /\ local[c] = NoSession /\ ~isAuthenticated[c]

\* C21: when the admin's handleDeleteUser or handleDeleteUserToken has
\* completed for a user, no session row of that user is active.
C21_AdminRevocationDeactivates ==
  [][\A c \in Clients :
       ( /\ Ends(c, "handleDeleteUser") \/ Ends(c, "handleDeleteUserToken")
         /\ res'[c] = "ok" ) =>
         ActiveRows(sessions', arg[c].userId) = {}]_vars

\* A user row with a token refers to a token row that exists in T.
RefersToRow(u, T) == u.token # "" => \E k \in T : k.token = u.token

\* C22: when the expired-token sweep has run, every user row with a
\* non-empty token refers to an existing token row whose expiry_date has not
\* passed; and when an admin delete or renew operation has completed, no
\* user row refers to a missing token row.
C22_TokenReferencesLive ==
  [][\A c \in Clients :
       /\ Ends(c, "handleExpiredTokens") =>
            \A u \in users' : u.token # "" =>
              \E k \in tokens' : k.token = u.token /\ ~Expired(k, clock')
       /\ ( \/ Ends(c, "handleDeleteUser") \/ Ends(c, "handleDeleteUserToken")
            \/ Ends(c, "handleDeleteUnusedToken") \/ Ends(c, "handleRenewToken") ) =>
            \A u \in users' : RefersToRow(u, tokens')]_vars

\* C23: a token row whose is_used is true keeps it for as long as the row
\* exists, whatever operation runs; and a completed renewal has deleted the
\* old row and given the user a new row that is used.
C23_UsedNeverReset ==
  [][/\ \A k \in tokens : \A k2 \in tokens' :
          (k.is_used /\ k2.token = k.token) => k2.is_used
     /\ \A c \in Clients : Ends(c, "handleRenewToken") =>
          /\ arg[c].token # "" => TokensNamed(tokens', arg[c].token) = {}
          /\ \E k \in tokens' : k.token = NewTokenOf(c) /\ k.is_used
          /\ \A u \in users' : u.id = arg[c].userId => u.token = NewTokenOf(c)]_vars

\* C23 witness: the token of a sign-up is marked used by the new user, and
\* the admin has renewed the token of another user since.
C23_Witness ==
  /\ \E k \in tokens : k.token = "T3" /\ k.is_used /\ k.used_by = "carol"
  /\ \E u \in users : u.token \notin {"", "T1", "T2", "T3"}
  /\ \A c \in Clients : pc[c] = "idle"

\* The session row i was created from browser c for user uid under
\* session id sid and is inactive; row j is a later row of the same user
\* from another browser.
Superseded(S, c, sid, uid, i, j) ==
  /\ S[i].session_id = sid /\ S[i].user_id = uid
  /\ S[i].device_fingerprint = getDeviceFingerprint(c) /\ ~S[i].is_active
  /\ S[j].user_id = uid /\ S[j].device_fingerprint # getDeviceFingerprint(c)
  /\ S[j].created_at > S[i].created_at

\* C24: after a user signed in from one browser, that session was
\* deactivated and the user signed in from a second browser, a validation
\* of the first session from the first browser returns false and leaves the
\* second session active.
C24_ForcedOutStaysOut ==
  [][\A c \in Clients : \A i, j \in DOMAIN sessions :
       ( /\ Ends(c, "validateSession")
         /\ Superseded(sessions, c, arg[c].sessionId, arg[c].userId, i, j)
         /\ sessions[j].is_active ) =>
         res'[c] = "false" /\ sessions'[j].is_active]_vars

\* C24 witness: the admin console ended the first session, the sign-in from
\* the second browser succeeded and holds the active session, and the
\* validation of the first session from the first browser returned false.
C24_Witness ==
  \E c, d \in Clients : \E i, j \in DOMAIN sessions :
    /\ c # d /\ \A e \in Clients : pc[e] = "idle"
    /\ res[AdminConsole] = "ended"
    /\ res[c] = "false" /\ local[c].sessionId = sessions[i].session_id
    /\ res[d] = "ok" /\ local[d].sessionId = sessions[j].session_id
    /\ Superseded(sessions, c, local[c].sessionId, local[c].userId, i, j)
    /\ sessions[j].is_active

\* The ids of the users that signed up.
SignedUpIds == {u.id : u \in users} \ {u.id : u \in InitUsers}

\* C25: the first sign-in of a user who signed up, with the username and
\* the password of the sign-up, succeeds, and when it has, exactly one
\* session row of that user is active.
C25_SignUpThenSignIn ==
  [][\A c \in Clients :
       \A u \in users :
         ( /\ Ends(c, "signIn")
           /\ u.id \in SignedUpIds
           /\ u.username = arg[c].username /\ u.password = arg[c].password
           /\ \A i \in DOMAIN sessions :
                sessions[i].user_id = u.id => sessions[i].session_id = arg[c].call ) =>
           /\ res'[c] = "ok"
           /\ Cardinality(ActiveRows(sessions', u.id)) = 1
           /\ local'[c].isLoggedIn /\ local'[c].userId = u.id]_vars

\* C25 witness: carol signed up with token T3 and then signed in; her one
\* session row is active and her browser holds the session.
C25_Witness ==
  \E c \in Clients : \E u \in users :
    /\ u.username = "carol" /\ u.id \in SignedUpIds
    /\ pc[c] = "idle" /\ res[c] = "ok"
    /\ local[c].isLoggedIn /\ local[c].userId = u.id
    /\ \E k \in tokens : k.token = "T3" /\ k.is_used /\ k.used_by = "carol"
    /\ Cardinality(ActiveRows(sessions, u.id)) = 1
    /\ Cardinality({i \in DOMAIN sessions : sessions[i].user_id = u.id}) = 1

\* What a sign-in of the admin leaves: the tables as they were, the call
\* over in its first step, and a local session marked admin with userId
\* 'admin' and a session id that no session row and no other browser holds.
AdminSignedIn(c) ==
  /\ users' = users /\ tokens' = tokens /\ sessions' = sessions
  /\ pc'[c] = "idle" /\ res'[c] = "ok"
  /\ local'[c].isLoggedIn /\ local'[c].isAdmin
  /\ local'[c].username = AdminUsername /\ local'[c].userId = AdminUserId
  /\ local'[c].sessionId # 0
  /\ local'[c].sessionId \notin SessionIds
  /\ \A d \in Clients \ {c} : local[d].sessionId # local'[c].sessionId

\* C26: a sign-in with the admin username and the admin password completes
\* without a store step, changes no table, and leaves a local session marked
\* admin with userId 'admin' and a fresh session id.
C26_AdminBypassesRegistry ==
  \A c \in Clients :
    (pc[c] = "idle" /\ ncalls < MaxCalls) =>
      /\ ENABLED (signIn_Begin(c, AdminUsername, AdminPassword) /\ AdminSignedIn(c))
      /\ ~ENABLED (signIn_Begin(c, AdminUsername, AdminPassword) /\ ~AdminSignedIn(c))

\* C26 witness: the admin signed in after a user had: the admin's local
\* session is held next to a session row that it has nothing to do with.
C26_Witness ==
  \E c \in Clients :
    /\ pc[c] = "idle" /\ res[c] = "ok"
    /\ local[c].isAdmin /\ local[c].userId = AdminUserId
    /\ local[c].username = AdminUsername
    /\ sessions # << >>
    /\ local[c].sessionId \notin SessionIds

\* The session check of browser c is over in its first step and has
\* changed no table.
CheckedLocally(c) ==
  /\ pc'[c] = "idle"
  /\ users' = users /\ tokens' = tokens /\ sessions' = sessions

\* C27: a session check over a local session marked admin returns that
\* session, kept as it is, if its username is the configured admin username,
\* and otherwise clears the local session and returns null; either way
\* without a store step.
C27_AdminSessionByName ==
  \A c \in Clients :
    (pc[c] = "idle" /\ ncalls < MaxCalls /\ local[c].isLoggedIn /\ local[c].isAdmin) =>
      /\ ENABLED checkSession_Begin(c)
      /\ IF local[c].username = AdminUsername
         THEN ~ENABLED ( /\ checkSession_Begin(c)
                         /\ ~(CheckedLocally(c) /\ res'[c] = "session" /\ local' = local) )
         ELSE ~ENABLED ( /\ checkSession_Begin(c)
                         /\ ~( /\ CheckedLocally(c) /\ res'[c] = "null"
                               /\ local'[c] = NoSession ) )

\* C27 witness: the local session of a signed-in user, edited to carry the
\* admin mark, was checked: null came back and the local session is gone,
\* while the session row of that browser is still active.
C27_Witness ==
  \E c \in Clients :
    /\ pc[c] = "idle"
    /\ res[c] = "null" /\ local[c] = NoSession /\ ~isAuthenticated[c]
    /\ \E i \in DOMAIN sessions :
         sessions[i].is_active /\ sessions[i].device_fingerprint = getDeviceFingerprint(c)

\* C28: a validateSession(sessionId, userId) that finds no session row with
\* that session_id, that user_id and is_active = true returns false after its
\* lookup and changes no session row.
C28_NoActiveRowIsFalse ==
  [][\A c \in Clients :
       ( /\ arg[c].op = "validateSession"
         /\ pc[c] = "validateSession_select" /\ pc'[c] # pc[c]
         /\ ~\E i \in DOMAIN sessions :
               /\ sessions[i].session_id = arg[c].sessionId
               /\ sessions[i].user_id = arg[c].userId
               /\ sessions[i].is_active ) =>
         pc'[c] = "idle" /\ res'[c] = "false" /\ sessions' = sessions]_vars

\* C28 witness: a validation returned false although no session row is
\* inactive: it found no row for its session id and user id.
C28_Witness ==
  \E c \in Clients :
    /\ pc[c] = "idle" /\ res[c] = "false"
    /\ sessions # << >>
    /\ \A i \in DOMAIN sessions : sessions[i].is_active

\* C29: a validateSession that finds the active session row with the
\* fingerprint of the calling browser goes on to the last_active update and
\* returns true, whether that update succeeds or fails, and no row's
\* is_active changes: the session stays active.
C29_ValidTouchBestEffort ==
  [][\A c \in Clients :
       /\ ( /\ arg[c].op = "validateSession"
            /\ pc[c] = "validateSession_select" /\ pc'[c] # pc[c]
            /\ \E i \in DOMAIN sessions :
                 /\ sessions[i].session_id = arg[c].sessionId
                 /\ sessions[i].user_id = arg[c].userId
                 /\ sessions[i].is_active
                 /\ sessions[i].device_fingerprint = getDeviceFingerprint(c) ) =>
            pc'[c] = "validateSession_touch" /\ sessions' = sessions
       /\ ( /\ arg[c].op = "validateSession"
            /\ pc[c] = "validateSession_touch" /\ pc'[c] # pc[c] ) =>
            /\ pc'[c] = "idle" /\ res'[c] = "true"
            /\ DOMAIN sessions' = DOMAIN sessions
            /\ \A i \in DOMAIN sessions : sessions'[i].is_active = sessions[i].is_active
            /\ \E i \in DOMAIN sessions' :
                 sessions'[i].session_id = arg[c].sessionId /\ sessions'[i].is_active
            /\ arg'[c].failed => sessions' = sessions]_vars

\* C29 witness: a validation whose last_active update failed returned true,
\* and the session of that browser is active with the last_active of its
\* creation.
C29_Witness ==
  \E c \in Clients : \E i \in DOMAIN sessions :
    /\ pc[c] = "idle" /\ res[c] = "true" /\ arg[c].failed
    /\ sessions[i].device_fingerprint = getDeviceFingerprint(c)
    /\ sessions[i].is_active
    /\ sessions[i].last_active = sessions[i].created_at

\* C30: endSession(sessionId) raises no error and changes only is_active of
\* the rows with that session_id, to false; where no row with that session_id
\* is active (it was ended before, or there is none), the table stays as it
\* is, so a second call leaves what the first left.
C30_EndSessionIdempotent ==
  [][\A c \in Clients :
       ( /\ arg[c].op = "endSession"
         /\ pc[c] = "endSession_update" /\ pc'[c] # pc[c] ) =>
         /\ pc'[c] = "idle" /\ res'[c] = "ended"
         /\ DOMAIN sessions' = DOMAIN sessions
         /\ \A i \in DOMAIN sessions :
              IF sessions[i].session_id = arg[c].sessionId
              THEN sessions'[i] = [sessions[i] EXCEPT !.is_active = FALSE]
              ELSE sessions'[i] = sessions[i]
         /\ (~\E i \in DOMAIN sessions :
                sessions[i].session_id = arg[c].sessionId /\ sessions[i].is_active) =>
              sessions' = sessions]_vars

\* C30 witness: after one sign-in, endSession was called twice and has
\* returned both times; the one session row is inactive, and the browser
\* that signed in has not signed out.
C30_Witness ==
  \E c, d \in Clients :
    /\ c # d /\ ncalls = 1
    /\ pc[c] = "idle" /\ res[c] = "ended"
    /\ pc[d] = "idle" /\ res[d] = "ended"
    /\ Len(sessions) = 1 /\ ~sessions[1].is_active
    /\ \E e \in Clients : local[e].sessionId = sessions[1].session_id

\* C31: when handleDeleteUser has succeeded for a user that had a token, no
\* token row with that token is left, and no token row names the deleted
\* user in used_by.
C31_DeleteUserDeletesToken ==
  [][\A c \in Clients :
       ( Ends(c, "handleDeleteUser") /\ res'[c] = "ok" /\ arg[c].token # "" ) =>
         /\ TokensNamed(tokens', arg[c].token) = {}
         /\ \A u \in users : u.id = arg[c].userId =>
              /\ u \notin users'
              /\ \A k \in tokens' : k.used_by # u.username]_vars

\* C31 witness: carol signed up with T3, which named her in used_by, and the
\* one operation of the admin since has deleted her: neither her row nor the
\* row of T3 is left, and the other users and tokens are as they were.
C31_Witness ==
  /\ \A c \in Clients : pc[c] = "idle"
  /\ res[UserBrowser] = "ok" /\ res[AdminConsole] = "ok"
  /\ nextUserId = 4 /\ ncalls = 2
  /\ users = InitUsers
  /\ tokens = {k \in InitTokens : k.token # "T3"}

\* C32: when handleRenewToken has succeeded, no row of the old token is left,
\* the user's token is the new token and the new row has is_used = true and
\* no used_by; and the replacement is atomic for every caller: a session
\* check that looks up the token of the user row it read finds its row.
C32_RenewalAtomic ==
  [][\A c \in Clients :
       /\ ( Ends(c, "handleRenewToken") /\ res'[c] = "ok" ) =>
            /\ arg[c].token # "" => TokensNamed(tokens', arg[c].token) = {}
            /\ \A u \in users' : u.id = arg[c].userId => u.token = NewTokenOf(c)
            /\ \A k \in TokensNamed(tokens', NewTokenOf(c)) : k.is_used /\ k.used_by = ""
            /\ TokensNamed(tokens', NewTokenOf(c)) # {}
       /\ ( pc[c] = "checkSession_token" /\ pc'[c] # "checkSession_token" ) =>
            RefersToRow(arg[c].user, tokens)]_vars

\* C33: every signOut leaves the browser without a local session, also when
\* its store update fails; with a sessionId and a userId in the local session
\* it sets is_active = false on the session rows that match both and changes
\* no other row, and without them it changes no row at all.
C33_SignOutFrame ==
  [][\A c \in Clients :
       /\ Ends(c, "signOut") => local'[c] = NoSession
       /\ ( /\ pc[c] = "idle" /\ pc'[c] = "idle" /\ ncalls' = ncalls
            /\ (local'[c] # local[c] \/ res'[c] # res[c]) ) =>
            /\ local[c].sessionId = 0 \/ local[c].userId = 0
            /\ local'[c] = NoSession /\ res'[c] = "signedOut"
            /\ sessions' = sessions
       /\ Ends(c, "signOut") =>
            /\ DOMAIN sessions' = DOMAIN sessions
            /\ \A i \in DOMAIN sessions :
                 IF /\ sessions[i].session_id = local[c].sessionId
                    /\ sessions[i].user_id = local[c].userId
                    /\ ~arg'[c].failed
                 THEN sessions'[i] = [sessions[i] EXCEPT !.is_active = FALSE]
                 ELSE sessions'[i] = sessions[i]]_vars

\* C33 witness: alice and bob were signed in on two browsers and both have
\* signed out; the update of alice's browser succeeded and her row is
\* inactive, the update of bob's browser failed and his row is still active;
\* neither browser has a local session.
C33_Witness ==
  /\ res["c1"] = "signedOut" /\ ~arg["c1"].failed /\ local["c1"] = NoSession
  /\ res["c2"] = "signedOut" /\ arg["c2"].failed /\ local["c2"] = NoSession
  /\ pc["c1"] = "idle" /\ pc["c2"] = "idle"
  /\ ActiveRows(sessions, 1) = {} /\ ActiveRows(sessions, 2) # {}
  /\ \E i \in DOMAIN sessions : sessions[i].user_id = 1
  /\ \A i \in DOMAIN sessions : sessions[i].user_id = 1 =>
       sessions[i].device_fingerprint = getDeviceFingerprint("c1")

\* C34: a signIn of a normal user that succeeds leaves a local session with
\* the username, id, token and token expiry of the user row it looked up,
\* the fingerprint of the browser and the session id createSession returned,
\* which is the id of a session row of that user and browser; a signIn that
\* fails leaves the local session as it was.
C34_SignInPersists ==
  [][\A c \in Clients : Ends(c, "signIn") =>
       IF res'[c] = "ok"
       THEN /\ \E u \in users :
                 /\ u.username = arg[c].username
                 /\ local'[c].username = u.username /\ local'[c].userId = u.id
                 /\ local'[c].token = u.token /\ local'[c].tokenExpiry = u.token_expiry
            /\ local'[c].deviceFingerprint = getDeviceFingerprint(c)
            /\ local'[c].isLoggedIn /\ ~local'[c].isAdmin
            /\ local'[c].sessionId = arg[c].call
            /\ \E i \in DOMAIN sessions' :
                 /\ sessions'[i].session_id = local'[c].sessionId
                 /\ sessions'[i].user_id = local'[c].userId
                 /\ sessions'[i].device_fingerprint = getDeviceFingerprint(c)
       ELSE local'[c] = local[c]]_vars

\* C34 witness: alice is signed in on the first browser, whose local session
\* carries her row's values and the id of her active session row, and a
\* sign-in refused on the second browser has left it without a local session.
C34_Witness ==
  /\ res["c1"] = "ok" /\ pc["c1"] = "idle"
  /\ local["c1"].username = "alice" /\ local["c1"].userId = 1
  /\ local["c1"].token = "T1" /\ local["c1"].tokenExpiry = ExpiryT1
  /\ local["c1"].deviceFingerprint = getDeviceFingerprint("c1")
  /\ \E i \in ActiveRows(sessions, 1) : sessions[i].session_id = local["c1"].sessionId
  /\ res["c2"] = "AlreadyLoggedInElsewhere" /\ pc["c2"] = "idle" /\ local["c2"] = NoSession

\* C35: no silent take-over when sign-ins of one user run concurrently in
\* browsers with different fingerprints: no step of a signIn turns inactive
\* a session row that is active under another fingerprint, and a signIn
\* never returns success while another browser holds a local session of the
\* same user from a sign-in of its own.
C35_NoSilentTakeOver ==
  [][\A c \in Clients :
       /\ ( arg[c].op = "signIn" /\ pc[c] # "idle" /\ pc'[c] # pc[c] ) =>
            \A i \in DOMAIN sessions :
              ( sessions[i].is_active /\
                sessions[i].device_fingerprint # getDeviceFingerprint(c) ) =>
                sessions'[i].is_active
       /\ ( Ends(c, "signIn") /\ res'[c] = "ok" ) =>
            \A d \in Clients \ {c} :
              ~( local[d].isLoggedIn /\ ~local[d].isAdmin /\
                 local[d].userId = local'[c].userId )]_vars

\* C36: a browser without a local session, after an invalidation cleared it
\* included, gets a local session only by a signIn that succeeds: no step of
\* a session check that read the session before the clear writes it back.
C36_ClearedStaysCleared ==
  [][\A c \in Clients :
       ( local[c] = NoSession /\ local'[c] # NoSession ) =>
         ( arg[c].op = "signIn" /\ pc'[c] = "idle" /\ res'[c] = "ok" )]_vars

\* The session row of browser c's local session is inactive.
BackingRowInactive(c) ==
  /\ local[c].isLoggedIn /\ ~local[c].isAdmin
  /\ \E i \in DOMAIN sessions :
       sessions[i].session_id = local[c].sessionId /\ ~sessions[i].is_active

\* C37: without any push event, when the session row behind a browser's
\* local session has become inactive, the fairly scheduled poll eventually
\* leaves the browser without a local session and not authenticated, unless
\* a new sign-in in that browser has replaced the local session before.
C37_PollEventuallyClears ==
  \A c \in PollBrowsers :
    BackingRowInactive(c) ~>
      ( \/ local[c] = NoSession /\ ~isAuthenticated[c]
        \/ local[c].isLoggedIn /\ ~BackingRowInactive(c) )

\* C38: the admin page becomes authenticated, by the item adminSession being
\* set or by its state isAuthenticated turning true, only with the admin
\* username and the admin password in the login form; and no management
\* operation starts on a page that was logged in with another pair.
C38_ConsoleOnlyForAdmin ==
  [][\A c \in Clients :
       /\ ( \/ ~adminPage[c].adminSession /\ adminPage'[c].adminSession
            \/ ~adminPage[c].isAuthenticated /\ adminPage'[c].isAuthenticated ) =>
            adminPage'[c].loginData = <<AdminUsername, AdminPassword>>
       /\ ( pc[c] = "idle" /\ pc'[c] = "handleDeleteUser_lookup" ) =>
            adminPage[c].loginData = <<AdminUsername, AdminPassword>>]_vars

\* C39: when a createSession call has failed, the rows of the user that are
\* active are those that were active when the call was entered: a session
\* active before is still active and the call has left no active row of
\* its own.
C39_FailedCreateLeavesActive ==
  [][\A c \in Clients :
       ( /\ Ends(c, "signIn") /\ res'[c] = "SessionCreateFailed"
         /\ activeBefore[c].call = arg[c].call ) =>
         ActiveRows(sessions', arg[c].userId) = activeBefore[c].rows]_vars

====
